---- MODULE Spec2Model ----
(***************************************************************************)
(* Creative engine: ContentGenerator (ideate, judge, select, draft),       *)
(* CreativityEvaluator (temperature sweep, persona sweep, aggregation) and *)
(* the CreativeEngine orchestrator that wires them for one request.        *)
(*                                                                         *)
(* Numbers.  quality scores, thresholds, creativity levels, temperatures   *)
(* and top_p are carried in hundredths (0.75 is 75).  Criterion scores are *)
(* carried in tenths (2.4 is 24).  A mean is carried multiplied by         *)
(* MeanScale and a standard deviation is carried as its square multiplied  *)
(* by VarScale, so that every statistic the evaluator computes is an exact *)
(* integer; squaring is monotone on std >= 0, so max and equality of stds  *)
(* are max and equality of the carried values.                             *)
(***************************************************************************)
EXTENDS FiniteSets, Integers, Sequences, TLC

VARIABLES
    config,                 \* ContentGenerator.config (CreativityConfig)
    params,                 \* ContentGenerator._params (cached EngineParameters)
    temperature_grid,       \* CreativityEvaluator.temperature_grid
    pc,                     \* position of the running request
    request,                \* arguments of the running generate call
    requests,               \* number of generate calls started so far
    concepts,               \* generate: concepts returned by ideation
    scored_concepts,        \* generate: scored list built by the judge loop
    best_concept,           \* generate: result of _select_best_concept
    gen_result,             \* GenerationResult returned by the generator
    script,                 \* score_script: the script under evaluation
    i,                      \* loop index of the running batch
    outputs,                \* sweep: per-run entries (by_temperature / by_persona)
    successful_evaluations, \* sweep: judge outputs of the successful calls
    temperature_block,      \* score_script: Block A result
    persona_block,          \* score_script: Block B result
    assessment,             \* CreativityAssessmentResult returned by score_script
    result,                 \* outcome of the running call (value or raised error)
    calls,                  \* provider.generate calls issued by the running call
    provider,               \* CreativeEngine.provider (the LLMProvider in use)
    environ,                \* os.environ and the installed SDK packages
    api                     \* the running provider.generate call

vars == <<config, params, temperature_grid, pc, request, requests, concepts,
          scored_concepts, best_concept, gen_result, script, i, outputs,
          successful_evaluations, temperature_block, persona_block,
          assessment, result, calls, provider, environ, api>>

genVars == <<concepts, scored_concepts, best_concept, gen_result>>
evalVars == <<script, outputs, successful_evaluations, temperature_block,
              persona_block, assessment>>
llmVars == <<provider, environ, api>>

----------------------------------------------------------------------------
(* Bounds of the model *)

MaxConcepts == 3
MaxRequests == 2
EngineMaxConcepts == 1

(* Python's None *)
None == [type |-> "None"]

Max2(a, b) == IF a >= b THEN a ELSE b
Min2(a, b) == IF a <= b THEN a ELSE b

----------------------------------------------------------------------------
(* core/enums.py *)

ContentType == {"video_script", "linkedin_post", "twitter_thread",
                "email_copy", "reddit_post", "ad_copy"}

(* generation/registry.py *)
CONTENT_REGISTRY == {"video_script"}

----------------------------------------------------------------------------
(* core/config.py *)

\* mutant: the bounds 0.0 and 1.0 are rejected
CreativityConfigRaises_Strict(creativity_level, quality_threshold) ==
    \/ ~(0 < creativity_level /\ creativity_level < 100)
    \/ ~(0 < quality_threshold /\ quality_threshold < 100)

\* CreativityConfig.__post_init__: TRUE when construction raises ValueError
CreativityConfigRaises(creativity_level, quality_threshold) ==
    \/ ~(0 <= creativity_level /\ creativity_level <= 100)
    \/ ~(0 <= quality_threshold /\ quality_threshold <= 100)

\* mutant: temperatures above 1.0 are rejected
EngineParametersRaises_TemperatureMax1(p) ==
    \/ ~(0 <= p.temperature /\ p.temperature <= 100)
    \/ ~(0 <= p.top_p /\ p.top_p <= 100)
    \/ p.num_branches < 1

\* EngineParameters.__post_init__: TRUE when construction raises ValueError
EngineParametersRaises(p) ==
    \/ ~(0 <= p.temperature /\ p.temperature <= 200)
    \/ ~(0 <= p.top_p /\ p.top_p <= 100)
    \/ p.num_branches < 1

\* mutant: the third decimal is cut off instead of rounded
Round2_Truncate(thousandths) == thousandths \div 10

\* round(x, 2) of a value given in thousandths (round half to even)
Round2(thousandths) ==
    LET q == thousandths \div 10
        r == thousandths % 10
    IN  IF r < 5 THEN q
        ELSE IF r > 5 THEN q + 1
        ELSE IF q % 2 = 0 THEN q ELSE q + 1

\* mutant: num_branches grows by 8 per unit of level
map_creativity_EightPerLevel(creativity_level, quality_threshold) ==
    LET level == Max2(0, Min2(100, creativity_level))
    IN  [type |-> "EngineParameters",
         temperature |-> Round2(400 + 8 * level),
         top_p |-> Round2(600 + 4 * level),
         num_branches |-> Max2(2, (200 + 8 * level) \div 100),
         quality_threshold |-> quality_threshold]

\* map_creativity(creativity_level, quality_threshold)
map_creativity(creativity_level, quality_threshold) ==
    LET level == Max2(0, Min2(100, creativity_level))
    IN  [type |-> "EngineParameters",
         temperature |-> Round2(400 + 8 * level),
         top_p |-> Round2(600 + 4 * level),
         num_branches |-> Max2(2, (200 + 6 * level) \div 100),
         quality_threshold |-> quality_threshold]

\* ContentGenerator._get_params: the value it returns
GetParams(cached, cfg) ==
    IF cached = None
    THEN map_creativity(cfg.creativity_level, cfg.quality_threshold)
    ELSE cached

----------------------------------------------------------------------------
(* Inputs: what the provider may answer *)

Levels == {0, 70, 100}
Thresholds == {0, 75, 100}
Configs == [creativity_level : Levels, quality_threshold : Thresholds]

QualityScores == {30, 75, 90}
EngineQualityScores == {75}

\* the concept list an ideation call returns: n concepts, told apart by title
Concept(n) == [title |-> n]
ConceptList(n) == [k \in 1..n |-> Concept(k)]

\* drafted content: VideoScript instances, and an object (as a stub provider
\* may return) that has no model_dump and so cannot be serialised
Contents == {[schema |-> "VideoScript", serialisable |-> TRUE],
             [schema |-> "object", serialisable |-> FALSE]}

\* one provider.generate call, as the provider sees it
Call(kind, temperature, top_p) ==
    [kind |-> kind, temperature |-> temperature, top_p |-> top_p]

Raised(err) == [type |-> "raised", error |-> err]

----------------------------------------------------------------------------
(* generation/generator.py *)

ScoredConcept(concept, quality_score) ==
    [concept |-> concept, quality_score |-> quality_score]

\* mutant: min(...) written for max(...)
MaxByScore_Min(s) ==
    LET worst == CHOOSE k \in 1..Len(s) :
                     /\ \A j \in 1..Len(s) : s[j].quality_score >= s[k].quality_score
                     /\ \A j \in 1..(k - 1) : s[j].quality_score > s[k].quality_score
    IN  s[worst]

\* max(valid_concepts, key=...): the first element with the greatest score
MaxByScore(s) ==
    LET best == CHOOSE k \in 1..Len(s) :
                    /\ \A j \in 1..Len(s) : s[j].quality_score <= s[k].quality_score
                    /\ \A j \in 1..(k - 1) : s[j].quality_score < s[k].quality_score
    IN  s[best]

\* mutant: "<" written for ">=" in the filter
AboveThreshold_Below(s, quality_threshold) ==
    LET Valid(sc) == sc.quality_score < quality_threshold
    IN  SelectSeq(s, Valid)

\* the filter of _select_best_concept
AboveThreshold(s, quality_threshold) ==
    LET Valid(sc) == sc.quality_score >= quality_threshold
    IN  SelectSeq(s, Valid)

\* mutant: no fallback to the whole list when nothing reaches the threshold
SelectBestConcept_NoFallback(s, quality_threshold) ==
    LET valid_concepts == AboveThreshold(s, quality_threshold)
    IN  IF valid_concepts = <<>>
        THEN Raised("No scored concepts available for selection.")
        ELSE MaxByScore(valid_concepts)

\* ContentGenerator._select_best_concept
SelectBestConcept(s, quality_threshold) ==
    LET filtered == AboveThreshold(s, quality_threshold)
        valid_concepts == IF filtered = <<>> THEN s ELSE filtered
    IN  IF valid_concepts = <<>>
        THEN Raised("No scored concepts available for selection.")
        ELSE MaxByScore(valid_concepts)

\* mutant: selected_concept is the first concept, not the best one
GenerationResult_FirstConcept(content, best, content_type, cs, scs, uuid) ==
    [type |-> "GenerationResult",
     content |-> content,
     selected_concept |-> cs[1],
     concept_score |-> best.quality_score,
     content_type |-> content_type,
     concepts |-> cs,
     scored_concepts |-> scs,
     generation_uuid |-> uuid]

\* GenerationResult(...), __post_init__ included (generation_uuid is fresh)
GenerationResult(content, best, content_type, cs, scs, uuid) ==
    [type |-> "GenerationResult",
     content |-> content,
     selected_concept |-> best.concept,
     concept_score |-> best.quality_score,
     content_type |-> content_type,
     concepts |-> cs,
     scored_concepts |-> scs,
     generation_uuid |-> uuid]

ResetLocals ==
    /\ concepts' = <<>>
    /\ scored_concepts' = <<>>
    /\ best_concept' = None
    /\ gen_result' = None
    /\ script' = None
    /\ i' = 0
    /\ outputs' = <<>>
    /\ successful_evaluations' = <<>>
    /\ temperature_block' = None
    /\ persona_block' = None
    /\ assessment' = None
    /\ result' = None
    /\ calls' = <<>>

\* mutant: the emptiness check of the ideation result is missing
IdeationRaises_Never(concept_list) == FALSE

\* generate: "if not concepts: raise ValueError(...)"
IdeationRaises(concept_list) == concept_list = <<>>

\* a caller invokes ContentGenerator.generate(product_context, content_type)
GenerateCall ==
    /\ pc \in {"idle", "gen_returned", "gen_raised"}
    /\ requests < MaxRequests
    /\ \E content_type \in ContentType :
           request' = [content_type |-> content_type, evaluate_creativity |-> FALSE]
    /\ requests' = requests + 1
    /\ pc' = "ideate"
    /\ ResetLocals
    /\ UNCHANGED <<config, params, temperature_grid>>
    /\ UNCHANGED llmVars

\* generate, Phase 1: _ideate and the check of its result
Ideate(counts) ==
    /\ pc = "ideate"
    /\ LET p == GetParams(params, config) IN
       /\ params' = p
       /\ IF request.content_type \notin CONTENT_REGISTRY
          THEN /\ result' = Raised("Content type is not registered.")
               /\ pc' = "gen_raised"
               /\ UNCHANGED <<concepts, calls, i>>
          ELSE \/ \* provider.generate raises
                  /\ calls' = Append(calls, Call("ideation", p.temperature, p.top_p))
                  /\ result' = Raised("provider")
                  /\ pc' = "gen_raised"
                  /\ UNCHANGED <<concepts, i>>
               \/ \* provider.generate returns an IdeationOutput
                  \E n \in counts :
                     /\ calls' = Append(calls, Call("ideation", p.temperature, p.top_p))
                     /\ IF IdeationRaises(ConceptList(n))
                        THEN /\ result' = Raised("Ideation phase returned no concepts.")
                             /\ pc' = "gen_raised"
                             /\ UNCHANGED <<concepts, i>>
                        ELSE /\ concepts' = ConceptList(n)
                             /\ i' = 1
                             /\ pc' = "judge"
                             /\ UNCHANGED result
    /\ UNCHANGED <<config, temperature_grid, request, requests, scored_concepts,
                   best_concept, gen_result>>
    /\ UNCHANGED evalVars
    /\ UNCHANGED llmVars

\* mutant: the loop leaves one concept unjudged
JudgeConcept_SkipLast(scores) ==
    /\ pc = "judge"
    /\ i <= Len(concepts)
    /\ \/ \* provider.generate raises: nothing catches it
          /\ calls' = Append(calls, Call("judge", 30, 90))
          /\ result' = Raised("provider")
          /\ pc' = "gen_raised"
          /\ UNCHANGED <<scored_concepts, i>>
       \/ \* provider.generate returns a ConceptScore
          \E quality_score \in scores :
             /\ calls' = Append(calls, Call("judge", 30, 90))
             /\ scored_concepts' = Append(scored_concepts,
                                          ScoredConcept(concepts[i], quality_score))
             /\ i' = i + 1
             /\ pc' = IF i >= Len(concepts) - 1 THEN "select" ELSE "judge"
             /\ UNCHANGED result
    /\ UNCHANGED <<config, params, temperature_grid, request, requests, concepts,
                   best_concept, gen_result>>
    /\ UNCHANGED evalVars
    /\ UNCHANGED llmVars

\* generate, Phase 1b: one iteration of the loop of _judge_all_concepts
JudgeConcept(scores) ==
    /\ pc = "judge"
    /\ i <= Len(concepts)
    /\ \/ \* provider.generate raises: nothing catches it
          /\ calls' = Append(calls, Call("judge", 30, 90))
          /\ result' = Raised("provider")
          /\ pc' = "gen_raised"
          /\ UNCHANGED <<scored_concepts, i>>
       \/ \* provider.generate returns a ConceptScore
          \E quality_score \in scores :
             /\ calls' = Append(calls, Call("judge", 30, 90))
             /\ scored_concepts' = Append(scored_concepts,
                                          ScoredConcept(concepts[i], quality_score))
             /\ i' = i + 1
             /\ pc' = IF i = Len(concepts) THEN "select" ELSE "judge"
             /\ UNCHANGED result
    /\ UNCHANGED <<config, params, temperature_grid, request, requests, concepts,
                   best_concept, gen_result>>
    /\ UNCHANGED evalVars
    /\ UNCHANGED llmVars

\* generate: best_concept = self._select_best_concept(scored_concepts)
Select ==
    /\ pc = "select"
    /\ LET p == GetParams(params, config)
           best == SelectBestConcept(scored_concepts, p.quality_threshold)
       IN  /\ params' = p
           /\ IF best = Raised("No scored concepts available for selection.")
              THEN /\ result' = best
                   /\ pc' = "gen_raised"
                   /\ UNCHANGED best_concept
              ELSE /\ best_concept' = best
                   /\ pc' = "draft"
                   /\ UNCHANGED result
    /\ UNCHANGED <<config, temperature_grid, request, requests, concepts,
                   scored_concepts, gen_result, i, calls>>
    /\ UNCHANGED evalVars
    /\ UNCHANGED llmVars

\* mutant: the draft call uses the judge's sampling parameters
Draft_JudgeTemperature ==
    /\ pc = "draft"
    /\ LET p == GetParams(params, config) IN
       /\ params' = p
       /\ \/ \* provider.generate raises
             /\ calls' = Append(calls, Call("draft", 30, 90))
             /\ result' = Raised("provider")
             /\ pc' = "gen_raised"
             /\ UNCHANGED gen_result
          \/ \* provider.generate returns the drafted content
             \E content \in Contents :
                /\ calls' = Append(calls, Call("draft", 30, 90))
                /\ gen_result' = GenerationResult(content, best_concept,
                                                  request.content_type, concepts,
                                                  scored_concepts, requests)
                /\ result' = gen_result'
                /\ pc' = "gen_returned"
    /\ UNCHANGED <<config, temperature_grid, request, requests, concepts,
                   scored_concepts, best_concept, i>>
    /\ UNCHANGED evalVars
    /\ UNCHANGED llmVars

\* generate, Phase 2: _draft_content and the construction of the result
Draft ==
    /\ pc = "draft"
    /\ LET p == GetParams(params, config) IN
       /\ params' = p
       /\ \/ \* provider.generate raises
             /\ calls' = Append(calls, Call("draft", p.temperature, p.top_p))
             /\ result' = Raised("provider")
             /\ pc' = "gen_raised"
             /\ UNCHANGED gen_result
          \/ \* provider.generate returns the drafted content
             \E content \in Contents :
                /\ calls' = Append(calls, Call("draft", p.temperature, p.top_p))
                /\ gen_result' = GenerationResult(content, best_concept,
                                                  request.content_type, concepts,
                                                  scored_concepts, requests)
                /\ result' = gen_result'
                /\ pc' = "gen_returned"
    /\ UNCHANGED <<config, temperature_grid, request, requests, concepts,
                   scored_concepts, best_concept, i>>
    /\ UNCHANGED evalVars
    /\ UNCHANGED llmVars

----------------------------------------------------------------------------
(* evaluation/evaluator.py *)

Criteria == {"hook_originality", "visual_creativity", "narrative_originality",
             "entertainment_value", "brand_integration", "platform_fit"}

ALL_PERSONAS == <<"Senior Creative Director", "TikTok Native UGC Creator",
                  "Performance Marketer", "Meme Culture Editor",
                  "Cinematographer / Visual Director", "Storytelling Coach",
                  "Brand Strategist", "Trend Analyst / Cultural Strategist">>

DefaultTemperatureGrid == <<10, 20, 30, 40, 50, 60, 70, 80>>
PersonaTemperature == 30
Quorum == 4

\* 5040 and 2520 are multiples of n and of n(n-1) for every sample size n <= 9
MeanScale == 10 * 5040
VarScale == 100 * 2520

\* what a judge call may return: scores in tenths, 10..30 (CriterionScore)
JudgeOutput(overall, criterion) ==
    [overall_creativity |-> overall, criteria |-> [c \in Criteria |-> criterion]]

JudgeOutputs == {JudgeOutput(20, 20)}

RECURSIVE SumSeq(_)
SumSeq(s) == IF s = <<>> THEN 0 ELSE Head(s) + SumSeq(Tail(s))

\* mutant: the sum is divided by the number of calls of a sweep, not by the
\* number of successful ones
Mean_OverAllCalls(scores) == (SumSeq(scores) * (MeanScale \div 10)) \div 8

\* statistics.mean(scores), carried times MeanScale
Mean(scores) == (SumSeq(scores) * (MeanScale \div 10)) \div Len(scores)

\* mutant: the population standard deviation (statistics.pstdev)
Stdev_Population(scores) ==
    LET n == Len(scores)
        sq == [k \in 1..n |-> scores[k] * scores[k]]
    IN  IF n > 1
        THEN ((n * SumSeq(sq) - SumSeq(scores) * SumSeq(scores)) * (VarScale \div 100))
                 \div (n * n)
        ELSE 0

\* statistics.stdev(scores) if len(scores) > 1 else 0.0, carried as the
\* sample variance times VarScale
Stdev(scores) ==
    LET n == Len(scores)
        sq == [k \in 1..n |-> scores[k] * scores[k]]
    IN  IF n > 1
        THEN ((n * SumSeq(sq) - SumSeq(scores) * SumSeq(scores)) * (VarScale \div 100))
                 \div (n * (n - 1))
        ELSE 0

Stats(mean, std) == [mean |-> mean, std |-> std]

\* the statistics part of _temperature_sweep / _persona_sweep
BlockStats(evals) ==
    LET overall_scores == [k \in 1..Len(evals) |-> evals[k].overall_creativity]
        Scores(c) == [k \in 1..Len(evals) |-> evals[k].criteria[c]]
    IN  [overall |-> Stats(Mean(overall_scores), Stdev(overall_scores)),
         criteria |-> [c \in Criteria |-> Stats(Mean(Scores(c)), Stdev(Scores(c)))]]

\* mutant: the quorum is half of the sweep size instead of the constant 4
TemperatureBlock_ScaledQuorum(evals, outs) ==
    IF Len(evals) < (Len(temperature_grid) + 1) \div 2
    THEN None
    ELSE [type |-> "TemperatureBlock",
          overall |-> BlockStats(evals).overall,
          criteria |-> BlockStats(evals).criteria,
          by_temperature |-> outs]

\* mutant: "<=" written for "<" in the quorum check
TemperatureBlock_OffByOne(evals, outs) ==
    IF Len(evals) <= Quorum
    THEN None
    ELSE [type |-> "TemperatureBlock",
          overall |-> BlockStats(evals).overall,
          criteria |-> BlockStats(evals).criteria,
          by_temperature |-> outs]

\* the tail of _temperature_sweep: the quorum check and the block it returns
TemperatureBlock(evals, outs) ==
    IF Len(evals) < Quorum
    THEN None
    ELSE [type |-> "TemperatureBlock",
          overall |-> BlockStats(evals).overall,
          criteria |-> BlockStats(evals).criteria,
          by_temperature |-> outs]

\* the tail of _persona_sweep: the quorum check and the block it returns
PersonaBlock(evals, outs) ==
    IF Len(evals) < Quorum
    THEN None
    ELSE [type |-> "PersonaBlock",
          overall |-> BlockStats(evals).overall,
          criteria |-> BlockStats(evals).criteria,
          by_persona |-> outs]

\* mutant: the two stds are averaged instead of taking the greater
AggregateResults_MeanStd(tb, pb) ==
    IF tb # None /\ pb # None
    THEN [overall |-> Stats((tb.overall.mean + pb.overall.mean) \div 2,
                            (tb.overall.std + pb.overall.std) \div 2),
          criteria |-> [c \in Criteria |->
                           Stats((tb.criteria[c].mean + pb.criteria[c].mean) \div 2,
                                 (tb.criteria[c].std + pb.criteria[c].std) \div 2)]]
    ELSE IF tb # None
    THEN [overall |-> Stats(tb.overall.mean, tb.overall.std),
          criteria |-> tb.criteria]
    ELSE IF pb # None
    THEN [overall |-> Stats(pb.overall.mean, pb.overall.std),
          criteria |-> pb.criteria]
    ELSE [overall |-> Stats(0, 0),
          criteria |-> [c \in Criteria |-> Stats(0, 0)]]

\* CreativityEvaluator._aggregate_results
AggregateResults(tb, pb) ==
    IF tb # None /\ pb # None
    THEN [overall |-> Stats((tb.overall.mean + pb.overall.mean) \div 2,
                            Max2(tb.overall.std, pb.overall.std)),
          criteria |-> [c \in Criteria |->
                           Stats((tb.criteria[c].mean + pb.criteria[c].mean) \div 2,
                                 Max2(tb.criteria[c].std, pb.criteria[c].std))]]
    ELSE IF tb # None
    THEN [overall |-> Stats(tb.overall.mean, tb.overall.std),
          criteria |-> tb.criteria]
    ELSE IF pb # None
    THEN [overall |-> Stats(pb.overall.mean, pb.overall.std),
          criteria |-> pb.criteria]
    ELSE [overall |-> Stats(0, 0),
          criteria |-> [c \in Criteria |-> Stats(0, 0)]]

\* score_script: json.dumps(script.model_dump()), before any judge call
ScoreScript ==
    /\ pc = "score_script"
    /\ IF script.serialisable
       THEN /\ pc' = "temperature_sweep"
            /\ i' = 1
            /\ UNCHANGED result
       ELSE /\ pc' = "eval_raised"
            /\ result' = Raised("script cannot be serialised")
            /\ UNCHANGED i
    /\ UNCHANGED <<config, params, temperature_grid, request, requests, calls>>
    /\ UNCHANGED genVars
    /\ UNCHANGED evalVars
    /\ UNCHANGED llmVars

\* _temperature_sweep: one iteration of the loop
TemperatureCall(judge_outputs) ==
    /\ pc = "temperature_sweep"
    /\ i <= Len(temperature_grid)
    /\ LET temp == temperature_grid[i] IN
       /\ calls' = Append(calls, Call("generic_judge", temp, 90))
       /\ \/ \* provider.generate raises: caught, logged, continue
             UNCHANGED <<outputs, successful_evaluations>>
          \/ \* provider.generate returns a GenericJudgeOutput
             \E output \in judge_outputs :
                /\ successful_evaluations' = Append(successful_evaluations, output)
                /\ outputs' = Append(outputs,
                                     [temperature |-> temp,
                                      overall_creativity |-> output.overall_creativity,
                                      judge_output |-> output])
    /\ i' = i + 1
    /\ pc' = IF i = Len(temperature_grid) THEN "temperature_stats"
                                          ELSE "temperature_sweep"
    /\ UNCHANGED <<config, params, temperature_grid, request, requests, script,
                   temperature_block, persona_block, assessment, result>>
    /\ UNCHANGED genVars
    /\ UNCHANGED llmVars

\* mutant: the persona sweep is skipped when the temperature block is absent
TemperatureSweepReturn_SkipPersona ==
    /\ pc = "temperature_stats"
    /\ temperature_block' = TemperatureBlock(successful_evaluations, outputs)
    /\ outputs' = <<>>
    /\ successful_evaluations' = <<>>
    /\ i' = 1
    /\ pc' = IF temperature_block' = None THEN "aggregate" ELSE "persona_sweep"
    /\ UNCHANGED <<config, params, temperature_grid, request, requests, script,
                   persona_block, assessment, result, calls>>
    /\ UNCHANGED genVars
    /\ UNCHANGED llmVars

\* _temperature_sweep after the loop: quorum check, statistics, return
TemperatureSweepReturn ==
    /\ pc = "temperature_stats"
    /\ temperature_block' = TemperatureBlock(successful_evaluations, outputs)
    /\ outputs' = <<>>
    /\ successful_evaluations' = <<>>
    /\ i' = 1
    /\ pc' = "persona_sweep"
    /\ UNCHANGED <<config, params, temperature_grid, request, requests, script,
                   persona_block, assessment, result, calls>>
    /\ UNCHANGED genVars
    /\ UNCHANGED llmVars

\* mutant: the persona loop has no try/except around the provider call
PersonaCall_NoCatch(judge_outputs) ==
    /\ pc = "persona_sweep"
    /\ i <= Len(ALL_PERSONAS)
    /\ LET persona_name == ALL_PERSONAS[i] IN
       /\ calls' = Append(calls, Call("persona_judge", PersonaTemperature, 90))
       /\ \/ \* provider.generate raises: the exception leaves score_script
             /\ pc' = "eval_raised"
             /\ result' = Raised("provider failure")
             /\ UNCHANGED <<outputs, successful_evaluations, i>>
          \/ \* provider.generate returns a PersonaJudgeOutput
             \E output \in judge_outputs :
                /\ successful_evaluations' = Append(successful_evaluations, output)
                /\ outputs' = Append(outputs,
                                     [persona |-> persona_name,
                                      overall_creativity |-> output.overall_creativity,
                                      judge_output |-> output])
                /\ i' = i + 1
                /\ pc' = IF i = Len(ALL_PERSONAS) THEN "persona_stats"
                                                  ELSE "persona_sweep"
                /\ UNCHANGED result
    /\ UNCHANGED <<config, params, temperature_grid, request, requests, script,
                   temperature_block, persona_block, assessment>>
    /\ UNCHANGED genVars
    /\ UNCHANGED llmVars

\* _persona_sweep: one iteration of the loop
PersonaCall(judge_outputs) ==
    /\ pc = "persona_sweep"
    /\ i <= Len(ALL_PERSONAS)
    /\ LET persona_name == ALL_PERSONAS[i] IN
       /\ calls' = Append(calls, Call("persona_judge", PersonaTemperature, 90))
       /\ \/ \* provider.generate raises: caught, logged, continue
             UNCHANGED <<outputs, successful_evaluations>>
          \/ \* provider.generate returns a PersonaJudgeOutput
             \E output \in judge_outputs :
                /\ successful_evaluations' = Append(successful_evaluations, output)
                /\ outputs' = Append(outputs,
                                     [persona |-> persona_name,
                                      overall_creativity |-> output.overall_creativity,
                                      judge_output |-> output])
    /\ i' = i + 1
    /\ pc' = IF i = Len(ALL_PERSONAS) THEN "persona_stats" ELSE "persona_sweep"
    /\ UNCHANGED <<config, params, temperature_grid, request, requests, script,
                   temperature_block, persona_block, assessment, result>>
    /\ UNCHANGED genVars
    /\ UNCHANGED llmVars

\* _persona_sweep after the loop: quorum check, statistics, return
PersonaSweepReturn ==
    /\ pc = "persona_stats"
    /\ persona_block' = PersonaBlock(successful_evaluations, outputs)
    /\ outputs' = <<>>
    /\ successful_evaluations' = <<>>
    /\ i' = 0
    /\ pc' = "aggregate"
    /\ UNCHANGED <<config, params, temperature_grid, request, requests, script,
                   temperature_block, assessment, result, calls>>
    /\ UNCHANGED genVars
    /\ UNCHANGED llmVars

\* mutant: aggregation raises when both blocks are absent
Aggregate_RaisesWhenEmpty ==
    /\ pc = "aggregate"
    /\ IF temperature_block = None /\ persona_block = None
       THEN /\ result' = Raised("Both evaluation blocks failed.")
            /\ pc' = "eval_raised"
            /\ UNCHANGED assessment
       ELSE /\ assessment' = [type |-> "CreativityAssessmentResult",
                              temperature_block |-> temperature_block,
                              persona_block |-> persona_block,
                              aggregate |-> AggregateResults(temperature_block,
                                                             persona_block)]
            /\ result' = assessment'
            /\ pc' = "eval_returned"
    /\ UNCHANGED <<config, params, temperature_grid, request, requests, script, i,
                   outputs, successful_evaluations, temperature_block,
                   persona_block, calls>>
    /\ UNCHANGED genVars
    /\ UNCHANGED llmVars

\* score_script, Block C: _aggregate_results and the result it returns
Aggregate ==
    /\ pc = "aggregate"
    /\ assessment' = [type |-> "CreativityAssessmentResult",
                      temperature_block |-> temperature_block,
                      persona_block |-> persona_block,
                      aggregate |-> AggregateResults(temperature_block, persona_block)]
    /\ result' = assessment'
    /\ pc' = "eval_returned"
    /\ UNCHANGED <<config, params, temperature_grid, request, requests, script, i,
                   outputs, successful_evaluations, temperature_block,
                   persona_block, calls>>
    /\ UNCHANGED genVars
    /\ UNCHANGED llmVars

----------------------------------------------------------------------------
(* engine.py *)

EngineResult(generation, evaluation) ==
    [type |-> "EngineResult",
     generation |-> generation,
     evaluation |-> evaluation,
     uuid |-> generation.generation_uuid]

\* a caller invokes CreativeEngine.generate, which calls generator.generate
EngineGenerateCall ==
    /\ pc \in {"idle", "returned", "raised"}
    /\ requests < MaxRequests
    /\ \E content_type \in ContentType, evaluate_creativity \in BOOLEAN :
           request' = [content_type |-> content_type,
                       evaluate_creativity |-> evaluate_creativity]
    /\ requests' = requests + 1
    /\ pc' = "ideate"
    /\ ResetLocals
    /\ UNCHANGED <<config, params, temperature_grid>>
    /\ UNCHANGED llmVars

\* mutant: the engine swallows a generator failure and returns a result
EnginePropagate_Swallow ==
    /\ pc = "gen_raised"
    /\ pc' = "returned"
    /\ result' = [type |-> "EngineResult", generation |-> None,
                  evaluation |-> None, uuid |-> requests]
    /\ UNCHANGED <<config, params, temperature_grid, request, requests, i, calls>>
    /\ UNCHANGED genVars
    /\ UNCHANGED evalVars
    /\ UNCHANGED llmVars

\* CreativeEngine.generate: generator.generate raised, nothing catches it
EnginePropagate ==
    /\ pc = "gen_raised"
    /\ pc' = "raised"
    /\ UNCHANGED <<config, params, temperature_grid, request, requests, i,
                   result, calls>>
    /\ UNCHANGED genVars
    /\ UNCHANGED evalVars
    /\ UNCHANGED llmVars

\* mutant: the engine evaluates every video script, whatever evaluate_creativity says
EngineAfterGeneration_AlwaysEvaluate ==
    /\ pc = "gen_returned"
    /\ IF request.content_type = "video_script"
       THEN /\ script' = gen_result.content
            /\ pc' = "score_script"
            /\ UNCHANGED result
       ELSE /\ result' = EngineResult(gen_result, None)
            /\ pc' = "returned"
            /\ UNCHANGED script
    /\ UNCHANGED <<config, params, temperature_grid, request, requests, i,
                   outputs, successful_evaluations, temperature_block,
                   persona_block, assessment, calls>>
    /\ UNCHANGED genVars
    /\ UNCHANGED llmVars

\* CreativeEngine.generate after generator.generate returned: either call
\* evaluator.score_script, or return without evaluation
EngineAfterGeneration ==
    /\ pc = "gen_returned"
    /\ IF request.evaluate_creativity /\ request.content_type = "video_script"
       THEN /\ script' = gen_result.content
            /\ pc' = "score_script"
            /\ UNCHANGED result
       ELSE /\ result' = EngineResult(gen_result, None)
            /\ pc' = "returned"
            /\ UNCHANGED script
    /\ UNCHANGED <<config, params, temperature_grid, request, requests, i,
                   outputs, successful_evaluations, temperature_block,
                   persona_block, assessment, calls>>
    /\ UNCHANGED genVars
    /\ UNCHANGED llmVars

\* mutant: no try/except around score_script
EngineReturn_NoCatch ==
    /\ pc \in {"eval_returned", "eval_raised"}
    /\ IF pc = "eval_returned"
       THEN /\ result' = EngineResult(gen_result, assessment)
            /\ pc' = "returned"
       ELSE /\ pc' = "raised"
            /\ UNCHANGED result
    /\ UNCHANGED <<config, params, temperature_grid, request, requests, i, calls>>
    /\ UNCHANGED genVars
    /\ UNCHANGED evalVars
    /\ UNCHANGED llmVars

\* CreativeEngine.generate after score_script returned or raised
EngineReturn ==
    /\ pc \in {"eval_returned", "eval_raised"}
    /\ result' = EngineResult(gen_result,
                              IF pc = "eval_returned" THEN assessment ELSE None)
    /\ pc' = "returned"
    /\ UNCHANGED <<config, params, temperature_grid, request, requests, i, calls>>
    /\ UNCHANGED genVars
    /\ UNCHANGED evalVars
    /\ UNCHANGED llmVars

----------------------------------------------------------------------------
(* core/llm.py *)

\* a Python str, as the sequence of its characters
Str(chars) == [type |-> "str", value |-> chars]

\* truth value of an Optional[str]: None and "" are false
Truthy(s) == s # None /\ s.value # <<>>

\* str.lower(), on the letters that occur in ModelNames
LowerChar(c) ==
    CASE
         c = "A" -> "a"
      [] c = "C" -> "c"
      [] c = "D" -> "d"
      [] c = "E" -> "e"
      [] c = "G" -> "g"
      [] c = "I" -> "i"
      [] c = "L" -> "l"
      [] c = "M" -> "m"
      [] c = "N" -> "n"
      [] c = "O" -> "o"
      [] c = "P" -> "p"
      [] c = "T" -> "t"
      [] c = "U" -> "u"
      [] OTHER -> c
Lower(s) == [k \in 1..Len(s) |-> LowerChar(s[k])]

\* str.startswith
StartsWith(s, prefix) ==
    /\ Len(s) >= Len(prefix)
    /\ SubSeq(s, 1, Len(prefix)) = prefix

ProviderFamily == {"OpenAIProvider", "AnthropicProvider", "GeminiProvider"}

\* the environment variable each provider's constructor reads
EnvVar(family) ==
    CASE family = "OpenAIProvider" -> "OPENAI_API_KEY"
      [] family = "AnthropicProvider" -> "ANTHROPIC_API_KEY"
      [] family = "GeminiProvider" -> "GOOGLE_API_KEY"

EnvVars == {EnvVar(family) : family \in ProviderFamily}

\* mutant: the constructor does not check the API key
NewProvider_NoKeyCheck(family, model_name, api_key, env) ==
    LET key == IF Truthy(api_key) THEN api_key ELSE env.vars[EnvVar(family)]
    IN  IF family \notin env.packages
        THEN Raised("ImportError")
        ELSE [type |-> "provider", family |-> family,
              model_name |-> model_name, api_key |-> key]

\* OpenAIProvider / AnthropicProvider / GeminiProvider.__init__: the provider
\* it builds, or the error it raises; no API request is made
NewProvider(family, model_name, api_key, env) ==
    LET key == IF Truthy(api_key) THEN api_key ELSE env.vars[EnvVar(family)]
    IN  IF ~Truthy(key)
        THEN Raised("API key not found")
        ELSE IF family \notin env.packages
             THEN Raised("ImportError")
             ELSE [type |-> "provider", family |-> family,
                   model_name |-> model_name, api_key |-> key]

\* mutant: the model name is matched without lower-casing it
create_provider_from_model_CaseSensitive(model, api_key, env) ==
    LET model_lower == model.value IN
    IF StartsWith(model_lower, <<"g", "p", "t", "-">>)
       \/ StartsWith(model_lower, <<"o", "1", "-">>)
    THEN NewProvider("OpenAIProvider", model, api_key, env)
    ELSE IF StartsWith(model_lower, <<"c", "l", "a", "u", "d", "e", "-">>)
    THEN NewProvider("AnthropicProvider", model, api_key, env)
    ELSE IF StartsWith(model_lower, <<"g", "e", "m", "i", "n", "i", "-">>)
    THEN NewProvider("GeminiProvider", model, api_key, env)
    ELSE Raised("Unknown model")

create_provider_from_model(model, api_key, env) ==
    LET model_lower == Lower(model.value) IN
    IF StartsWith(model_lower, <<"g", "p", "t", "-">>)
       \/ StartsWith(model_lower, <<"o", "1", "-">>)
    THEN NewProvider("OpenAIProvider", model, api_key, env)
    ELSE IF StartsWith(model_lower, <<"c", "l", "a", "u", "d", "e", "-">>)
    THEN NewProvider("AnthropicProvider", model, api_key, env)
    ELSE IF StartsWith(model_lower, <<"g", "e", "m", "i", "n", "i", "-">>)
    THEN NewProvider("GeminiProvider", model, api_key, env)
    ELSE Raised("Unknown model")

\* the text of an API response: a body, bare or inside a markdown code fence
Text(fence, body) == [type |-> "text", fence |-> fence, body |-> body]

\* "if content:" on an Optional[str]
TextTruthy(text) == text # None /\ ~(text.fence = "none" /\ text.body = "")

\* the fence-stripping of the fallback paths: the text between the fences,
\* or the whole text when there is no fence
StripFences(text) == text.body

\* a text handed to json.loads as it is: the fences are not JSON
Unstripped(text) == IF text.fence = "none" THEN text.body ELSE "not_json"

\* json.loads
JsonLoads(body) ==
    IF body \in {"", "not_json"}
    THEN Raised("JSONDecodeError")
    ELSE [type |-> "dict", valid |-> body = "valid"]

Instance(output_schema) == [type |-> "instance", schema |-> output_schema]

\* mutant: the parsed data is returned without validation
OutputSchema_Unvalidated(output_schema, data) ==
    IF data.valid THEN Instance(output_schema) ELSE data

\* output_schema(**data): pydantic validation
OutputSchema(output_schema, data) ==
    IF data.valid THEN Instance(output_schema) ELSE Raised("ValidationError")

\* data = json.loads(text); return output_schema(**data)
ParseJson(output_schema, body) ==
    LET data == JsonLoads(body)
    IN  IF data.type = "raised" THEN data ELSE OutputSchema(output_schema, data)

\* what the code under the outer try does with the first response: the
\* instance it returns, or the exception e the outer except catches
NativeResult(family, response, output_schema) ==
    IF response.type = "raised" THEN response
    ELSE CASE family = "OpenAIProvider" ->
                IF response.parsed # None THEN response.parsed
                ELSE IF TextTruthy(response.content)
                     THEN ParseJson(output_schema, Unstripped(response.content))
                     ELSE Raised("Failed to parse LLM response")
           [] family = "AnthropicProvider" ->
                IF response.content # <<>>
                      /\ response.content[1].type \in {"tool_use", "text"}
                THEN IF response.content[1].type = "tool_use"
                     THEN OutputSchema(output_schema, response.content[1].input)
                     ELSE ParseJson(output_schema,
                                    Unstripped(response.content[1].text))
                ELSE Raised("Failed to parse Anthropic response: no tool use content")
           [] family = "GeminiProvider" ->
                IF TextTruthy(response.text)
                THEN ParseJson(output_schema, StripFences(response.text))
                ELSE Raised("Failed to parse Gemini response: empty response")

\* what the code under the inner try does with the second response: the
\* instance it returns, the exception fallback_error it raises, or None when
\* the block ends without either (the response has no content)
FallbackResult(family, response, output_schema) ==
    IF response.type = "raised" THEN response
    ELSE CASE family = "OpenAIProvider" ->
                IF TextTruthy(response.content)
                THEN ParseJson(output_schema, StripFences(response.content))
                ELSE None
           [] family = "AnthropicProvider" ->
                IF response.content # <<>>
                THEN IF response.content[1].type = "text"
                     THEN ParseJson(output_schema,
                                    StripFences(response.content[1].text))
                     ELSE Raised("AttributeError")
                ELSE None
           [] family = "GeminiProvider" ->
                IF TextTruthy(response.text)
                THEN ParseJson(output_schema, StripFences(response.text))
                ELSE None

\* the ValueError generate raises after both attempts; its message is carried
\* as the sequence of the parts the f-string joins
GenerationError(e, fallback_error) ==
    [type |-> "raised", error |-> "ValueError",
     message |-> IF fallback_error = None
                 THEN <<"Failed to generate structured output: ", e.error>>
                 ELSE <<"Failed to generate structured output: ", e.error,
                        ", fallback also failed: ", fallback_error.error>>]

\* no provider.generate call has been made
ApiIdle == [pc |-> "idle", requests |-> 0, response |-> None, e |-> None,
            outcome |-> None]

(* Inputs: constructor arguments, environments, API responses *)

ModelNames ==
    {Str(chars) : chars \in
    {<<>>,
     <<"g", "p", "t", "-", "4">>,
     <<"G", "P", "T", "-", "4">>,
     <<"G", "p", "t", "-", "4">>,
     <<"o", "1", "-", "m">>,
     <<"O", "1", "-", "m">>,
     <<"c", "l", "a", "u", "d", "e", "-", "3">>,
     <<"C", "L", "A", "U", "D", "E", "-", "3">>,
     <<"g", "e", "m", "i", "n", "i", "-", "2">>,
     <<"G", "e", "m", "i", "n", "i", "-", "2">>,
     <<"G", "E", "M", "I", "N", "I", "-", "2">>,
     <<"g", "p", "t", "4">>,
     <<"g", "p", "t">>,
     <<"o", "1">>,
     <<"o", "3", "-", "m">>,
     <<"c", "l", "a", "u", "d", "e">>,
     <<"g", "e", "m", "i", "n", "i">>,
     <<"l", "l", "a", "m", "a", "-", "3">>,
     <<" ", "g", "p", "t", "-", "4">>,
     <<"x", "o", "1", "-", "m">>}}

ApiKeys == {None, Str(<<>>), Str(<<"k">>)}

Environments ==
    [vars : [EnvVars -> {None, Str(<<"e">>)}],
     packages : {ProviderFamily, {"OpenAIProvider"}, {}}]

\* a provider the caller built beforehand and hands to the engine
InjectedProvider ==
    [type |-> "provider", family |-> "AnthropicProvider",
     model_name |-> Str(<<"c", "l", "a", "u", "d", "e", "-", "3">>),
     api_key |-> Str(<<"k">>)]

OutputSchemas == {"IdeationOutput", "ConceptScore", "VideoScript"}

Texts == {Text("none", ""), Text("none", "valid"), Text("none", "not_json"),
          Text("none", "violates_schema"), Text("json", "valid"),
          Text("plain", "valid"), Text("json", "violates_schema")}

Blocks == {[type |-> "tool_use", input |-> [type |-> "dict", valid |-> v]] :
               v \in BOOLEAN}
          \cup {[type |-> "text", text |-> t] : t \in Texts}
          \cup {[type |-> "thinking"]}

\* what one API request can produce: an exception of the SDK, or a response
ApiResponses(family, output_schema, native) ==
    {Raised("APIError")} \cup
    CASE family = "OpenAIProvider" ->
           {[type |-> "completion", parsed |-> None, content |-> c] :
                c \in {None} \cup Texts}
           \cup (IF native
                 THEN {[type |-> "completion", parsed |-> Instance(output_schema),
                        content |-> None]}
                 ELSE {})
      [] family = "AnthropicProvider" ->
           {[type |-> "message", content |-> <<>>]}
           \cup {[type |-> "message", content |-> <<b>>] : b \in Blocks}
      [] family = "GeminiProvider" ->
           {[type |-> "response", text |-> t] : t \in Texts}

\* engine.py, CreativeEngine.__init__
EngineInit ==
    /\ pc = "construct"
    /\ LET built ==
               IF Truthy(request.model) /\ request.provider # None
               THEN Raised("Cannot specify both 'model' and 'provider'.")
               ELSE IF ~Truthy(request.model) /\ request.provider = None
               THEN Raised("Must specify either 'model' or 'provider'.")
               ELSE IF Truthy(request.model)
               THEN create_provider_from_model(request.model, request.api_key,
                                               environ)
               ELSE request.provider
       IN  IF built.type = "raised"
           THEN /\ result' = built
                /\ pc' = "construct_raised"
                /\ UNCHANGED <<provider, temperature_grid>>
           ELSE /\ provider' = built
                /\ temperature_grid' = DefaultTemperatureGrid
                /\ pc' = "constructed"
                /\ UNCHANGED result
    /\ UNCHANGED <<config, params, request, requests, i, calls, environ, api>>
    /\ UNCHANGED genVars
    /\ UNCHANGED evalVars

\* a component calls provider.generate(system_prompt, user_prompt, output_schema)
ProviderGenerate ==
    /\ pc = "constructed"
    /\ api.pc \in {"idle", "returned", "raised"}
    /\ \E output_schema \in OutputSchemas :
           request' = [output_schema |-> output_schema]
    /\ api' = [ApiIdle EXCEPT !.pc = "native"]
    /\ UNCHANGED <<config, params, temperature_grid, pc, requests, i, result,
                   calls, provider, environ>>
    /\ UNCHANGED genVars
    /\ UNCHANGED evalVars

\* generate, outer try: the native structured-output request and the parsing
\* of its response
NativeAttempt ==
    /\ api.pc = "native"
    /\ \E response \in ApiResponses(provider.family, request.output_schema, TRUE) :
           LET res == NativeResult(provider.family, response, request.output_schema)
           IN  api' = IF res.type = "raised"
                      THEN [pc |-> "fallback", requests |-> api.requests + 1,
                            response |-> response, e |-> res, outcome |-> None]
                      ELSE [pc |-> "returned", requests |-> api.requests + 1,
                            response |-> response, e |-> None, outcome |-> res]
    /\ UNCHANGED <<config, params, temperature_grid, pc, request, requests, i,
                   result, calls, provider, environ>>
    /\ UNCHANGED genVars
    /\ UNCHANGED evalVars

\* generate, except Exception as e: the fallback request, the parsing of its
\* response, and the two raise statements
FallbackAttempt ==
    /\ api.pc = "fallback"
    /\ \E response \in ApiResponses(provider.family, request.output_schema, FALSE) :
           LET res == FallbackResult(provider.family, response,
                                     request.output_schema)
           IN  api' = IF res # None /\ res.type = "instance"
                      THEN [pc |-> "returned", requests |-> api.requests + 1,
                            response |-> response, e |-> api.e, outcome |-> res]
                      ELSE [pc |-> "raised", requests |-> api.requests + 1,
                            response |-> response, e |-> api.e,
                            outcome |-> GenerationError(api.e, res)]
    /\ UNCHANGED <<config, params, temperature_grid, pc, request, requests, i,
                   result, calls, provider, environ>>
    /\ UNCHANGED genVars
    /\ UNCHANGED evalVars

----------------------------------------------------------------------------
\* the provider of a constructed component, before its first generate call
InitLLM ==
    /\ provider = InjectedProvider
    /\ environ = [vars |-> [v \in EnvVars |-> None], packages |-> ProviderFamily]
    /\ api = ApiIdle

InitCommon ==
    /\ params = None
    /\ temperature_grid = DefaultTemperatureGrid
    /\ request = None
    /\ requests = 0
    /\ concepts = <<>>
    /\ scored_concepts = <<>>
    /\ best_concept = None
    /\ gen_result = None
    /\ script = None
    /\ i = 0
    /\ outputs = <<>>
    /\ successful_evaluations = <<>>
    /\ temperature_block = None
    /\ persona_block = None
    /\ assessment = None
    /\ result = None
    /\ calls = <<>>
    /\ InitLLM

\* a ContentGenerator has been constructed from a valid CreativityConfig
InitGen ==
    /\ config \in Configs
    /\ pc = "idle"
    /\ InitCommon

NextGen ==
    \/ GenerateCall
    \/ Ideate(0..MaxConcepts)
    \/ JudgeConcept(QualityScores)
    \/ Select
    \/ Draft

SpecGen == InitGen /\ [][NextGen]_vars

\* a CreativityEvaluator has been constructed and score_script is called
InitEval ==
    /\ config \in {[creativity_level |-> 70, quality_threshold |-> 75]}
    /\ params = None
    /\ temperature_grid = DefaultTemperatureGrid
    /\ request = None
    /\ requests = 0
    /\ concepts = <<>>
    /\ scored_concepts = <<>>
    /\ best_concept = None
    /\ gen_result = None
    /\ script \in Contents
    /\ i = 0
    /\ outputs = <<>>
    /\ successful_evaluations = <<>>
    /\ temperature_block = None
    /\ persona_block = None
    /\ assessment = None
    /\ result = None
    /\ calls = <<>>
    /\ pc = "score_script"
    /\ InitLLM

NextEval ==
    \/ ScoreScript
    \/ TemperatureCall(JudgeOutputs)
    \/ TemperatureSweepReturn
    \/ PersonaCall(JudgeOutputs)
    \/ PersonaSweepReturn
    \/ Aggregate

SpecEval == InitEval /\ [][NextEval]_vars

\* a CreativeEngine has been constructed (generator and evaluator share the
\* provider; the evaluator has the default grid)
Init ==
    /\ config \in {[creativity_level |-> 70, quality_threshold |-> 75]}
    /\ pc = "idle"
    /\ InitCommon

Next ==
    \/ EngineGenerateCall
    \/ Ideate(0..EngineMaxConcepts)
    \/ JudgeConcept(EngineQualityScores)
    \/ Select
    \/ Draft
    \/ EnginePropagate
    \/ EngineAfterGeneration
    \/ ScoreScript
    \/ TemperatureCall(JudgeOutputs)
    \/ TemperatureSweepReturn
    \/ PersonaCall(JudgeOutputs)
    \/ PersonaSweepReturn
    \/ Aggregate
    \/ EngineReturn

Spec == Init /\ [][Next]_vars

----------------------------------------------------------------------------
(* _select_best_concept as a function: every scored list, the empty one
   included, under every configuration *)

RECURSIVE ScoredLists(_)
ScoredLists(n) ==
    IF n = 0 THEN {<<>>}
    ELSE ScoredLists(n - 1) \cup
         {Append(s, ScoredConcept(Concept(n), q)) :
              s \in {t \in ScoredLists(n - 1) : Len(t) = n - 1}, q \in QualityScores}

InitSelect ==
    /\ config \in Configs
    /\ params = None
    /\ temperature_grid = DefaultTemperatureGrid
    /\ request = [content_type |-> "video_script", evaluate_creativity |-> FALSE]
    /\ requests = 1
    /\ scored_concepts \in ScoredLists(MaxConcepts)
    /\ concepts = [k \in 1..Len(scored_concepts) |-> scored_concepts[k].concept]
    /\ best_concept = None
    /\ gen_result = None
    /\ script = None
    /\ i = Len(scored_concepts) + 1
    /\ outputs = <<>>
    /\ successful_evaluations = <<>>
    /\ temperature_block = None
    /\ persona_block = None
    /\ assessment = None
    /\ result = None
    /\ calls = <<>>
    /\ pc = "select"
    /\ InitLLM

NextSelect == Select

SpecSelect == InitSelect /\ [][NextSelect]_vars

----------------------------------------------------------------------------
(* _aggregate_results as a function of the two blocks *)

\* block statistics to aggregate: (mean, std) = (2.0, 0.1), (2.4, 0.3),
\* (1.0, 0.0), (3.0, 0.2)
StatChoices == {Stats(2 * MeanScale, VarScale \div 100),
                Stats((24 * MeanScale) \div 10, (9 * VarScale) \div 100),
                Stats(MeanScale, 0),
                Stats(3 * MeanScale, (4 * VarScale) \div 100)}

BlockChoices(kind) ==
    {[type |-> kind, overall |-> o,
      criteria |-> [c \in Criteria |-> IF c = "hook_originality" THEN a ELSE b]] :
         o \in StatChoices, a \in StatChoices, b \in StatChoices}

InitAgg ==
    /\ config \in {[creativity_level |-> 70, quality_threshold |-> 75]}
    /\ params = None
    /\ temperature_grid = DefaultTemperatureGrid
    /\ request = None
    /\ requests = 0
    /\ concepts = <<>>
    /\ scored_concepts = <<>>
    /\ best_concept = None
    /\ gen_result = None
    /\ script \in {c \in Contents : c.serialisable}
    /\ i = 0
    /\ outputs = <<>>
    /\ successful_evaluations = <<>>
    /\ temperature_block \in
           {None} \cup {b @@ [by_temperature |-> <<>>] :
                            b \in BlockChoices("TemperatureBlock")}
    /\ persona_block \in
           {None} \cup {b @@ [by_persona |-> <<>>] :
                            b \in BlockChoices("PersonaBlock")}
    /\ assessment = None
    /\ result = None
    /\ calls = <<>>
    /\ pc = "aggregate"
    /\ InitLLM

NextAgg == Aggregate

SpecAgg == InitAgg /\ [][NextAgg]_vars

----------------------------------------------------------------------------
(* CreativeEngine.__init__ under every combination of arguments and
   environment, then provider.generate calls on the engine's provider *)

InitProvider ==
    /\ config \in {[creativity_level |-> 70, quality_threshold |-> 75]}
    /\ params = None
    /\ temperature_grid = <<>>
    /\ request \in [model : {None} \cup ModelNames,
                    provider : {None, InjectedProvider},
                    api_key : ApiKeys]
    /\ requests = 0
    /\ concepts = <<>>
    /\ scored_concepts = <<>>
    /\ best_concept = None
    /\ gen_result = None
    /\ script = None
    /\ i = 0
    /\ outputs = <<>>
    /\ successful_evaluations = <<>>
    /\ temperature_block = None
    /\ persona_block = None
    /\ assessment = None
    /\ result = None
    /\ calls = <<>>
    /\ provider = None
    /\ environ \in Environments
    /\ api = ApiIdle
    /\ pc = "construct"

NextProvider ==
    \/ EngineInit
    \/ ProviderGenerate
    \/ NativeAttempt
    \/ FallbackAttempt

SpecProvider == InitProvider /\ [][NextProvider]_vars

----------------------------------------------------------------------------
(* a ContentGenerator whose owner changes the configuration between requests *)

\* between two requests the caller assigns a field of generator.config (a
\* mutable dataclass) or replaces generator.config by another valid one
SetConfig ==
    /\ pc \in {"idle", "gen_returned", "gen_raised"}
    /\ \E cfg \in Configs \ {config} : config' = cfg
    /\ UNCHANGED <<params, temperature_grid, pc, request, requests, i, result,
                   calls>>
    /\ UNCHANGED genVars
    /\ UNCHANGED evalVars
    /\ UNCHANGED llmVars

NextReconfig ==
    \/ SetConfig
    \/ GenerateCall
    \/ Ideate(0..EngineMaxConcepts)
    \/ JudgeConcept(EngineQualityScores)
    \/ Select
    \/ Draft

SpecReconfig == InitGen /\ [][NextReconfig]_vars

----------------------------------------------------------------------------
(* the statistics of _temperature_sweep and _persona_sweep as a function of
   what the loop collected: every pattern of failed and successful calls,
   with judge outputs whose scores differ between calls and between the
   overall score and the criteria *)

RichJudgeOutputs ==
    {[overall_creativity |-> 10,
      criteria |-> [c \in Criteria |-> IF c = "hook_originality" THEN 30 ELSE 10]],
     [overall_creativity |-> 30,
      criteria |-> [c \in Criteria |-> IF c = "hook_originality" THEN 10 ELSE 20]]}

\* the entry the loop appends to outputs for its k-th call
SweepEntry(kind, k, output) ==
    IF kind = "temperature"
    THEN [temperature |-> DefaultTemperatureGrid[k],
          overall_creativity |-> output.overall_creativity,
          judge_output |-> output]
    ELSE [persona |-> ALL_PERSONAS[k],
          overall_creativity |-> output.overall_creativity,
          judge_output |-> output]

\* successful_evaluations and outputs after k iterations of the loop: the
\* k-th call either raised (nothing appended) or returned an output
RECURSIVE SweepOutcomes(_, _)
SweepOutcomes(kind, k) ==
    IF k = 0
    THEN {[evals |-> <<>>, outs |-> <<>>]}
    ELSE LET prev == SweepOutcomes(kind, k - 1)
         IN  prev \cup
             {[evals |-> Append(o.evals, output),
               outs |-> Append(o.outs, SweepEntry(kind, k, output))] :
                  o \in prev, output \in RichJudgeOutputs}

InitStats ==
    /\ config \in {[creativity_level |-> 70, quality_threshold |-> 75]}
    /\ params = None
    /\ temperature_grid = DefaultTemperatureGrid
    /\ request = None
    /\ requests = 0
    /\ concepts = <<>>
    /\ scored_concepts = <<>>
    /\ best_concept = None
    /\ gen_result = None
    /\ script \in {c \in Contents : c.serialisable}
    /\ pc \in {"temperature_stats", "persona_stats"}
    /\ i = Len(DefaultTemperatureGrid) + 1
    /\ \E o \in SweepOutcomes(IF pc = "temperature_stats" THEN "temperature"
                                                          ELSE "persona",
                              Len(DefaultTemperatureGrid)) :
           /\ successful_evaluations = o.evals
           /\ outputs = o.outs
    /\ temperature_block = None
    /\ persona_block = None
    /\ assessment = None
    /\ result = None
    /\ calls = [k \in 1..Len(DefaultTemperatureGrid) |->
                    IF pc = "temperature_stats"
                    THEN Call("generic_judge", DefaultTemperatureGrid[k], 90)
                    ELSE Call("persona_judge", PersonaTemperature, 90)]
    /\ InitLLM

NextStats ==
    \/ TemperatureSweepReturn
    \/ PersonaSweepReturn

SpecStats == InitStats /\ [][NextStats]_vars

----------------------------------------------------------------------------
(* core/config.py as functions of their arguments: CreativityConfig(...) and
   map_creativity(...) called with values inside and outside [0, 1] *)

\* how far outside [0, 1] the creativity levels tried reach, in hundredths
LevelMargin == 50

RawLevels == (0 - LevelMargin)..(100 + LevelMargin)
RawThresholds == {-10, 0, 75, 100, 150}

\* CreativityConfig(creativity_level, quality_threshold)
NewCreativityConfig ==
    /\ pc = "args"
    /\ IF CreativityConfigRaises(request.creativity_level, request.quality_threshold)
       THEN /\ result' = Raised("must be between 0.0 and 1.0")
            /\ pc' = "config_raised"
            /\ UNCHANGED config
       ELSE /\ config' = [creativity_level |-> request.creativity_level,
                          quality_threshold |-> request.quality_threshold]
            /\ result' = config'
            /\ pc' = "configured"
    /\ UNCHANGED <<params, temperature_grid, request, requests, i, calls>>
    /\ UNCHANGED genVars
    /\ UNCHANGED evalVars
    /\ UNCHANGED llmVars

\* map_creativity(creativity_level, quality_threshold), the construction of
\* the EngineParameters it returns included
MapCreativity ==
    /\ pc = "args"
    /\ LET p == map_creativity(request.creativity_level, request.quality_threshold)
       IN  IF EngineParametersRaises(p)
           THEN /\ result' = Raised("EngineParameters")
                /\ pc' = "map_raised"
                /\ UNCHANGED params
           ELSE /\ params' = p
                /\ result' = p
                /\ pc' = "mapped"
    /\ UNCHANGED <<config, temperature_grid, request, requests, i, calls>>
    /\ UNCHANGED genVars
    /\ UNCHANGED evalVars
    /\ UNCHANGED llmVars

InitConfig ==
    /\ config = None
    /\ params = None
    /\ temperature_grid = DefaultTemperatureGrid
    /\ request \in [creativity_level : RawLevels, quality_threshold : RawThresholds]
    /\ requests = 0
    /\ concepts = <<>>
    /\ scored_concepts = <<>>
    /\ best_concept = None
    /\ gen_result = None
    /\ script = None
    /\ i = 0
    /\ outputs = <<>>
    /\ successful_evaluations = <<>>
    /\ temperature_block = None
    /\ persona_block = None
    /\ assessment = None
    /\ result = None
    /\ calls = <<>>
    /\ InitLLM
    /\ pc = "args"

NextConfig ==
    \/ NewCreativityConfig
    \/ MapCreativity

SpecConfig == InitConfig /\ [][NextConfig]_vars

----------------------------------------------------------------------------
(* GenerationResult.to_dict and the re-hydration of its generated_content
   entry (generation/models.py, comparison_benchmark.py) *)

\* the largest number of scenes of a drafted script
MaxScenes == 2

PlatformLiteral == {"tiktok", "instagram", "youtube_shorts", "linkedin"}
RoleLiteral == {"hook", "problem", "solution", "cta", "other"}

\* pydantic model instances carry their class in the field type; the dicts
\* model_dump produces carry no class
Audio(music, sfx) == [type |-> "Audio", music |-> music, sfx |-> sfx]

Scene(id, start_sec, role, on_screen_text, audio) ==
    [type |-> "Scene", id |-> id, start_sec |-> start_sec,
     end_sec |-> start_sec + 25, role |-> role, visual |-> Str(<<"v">>),
     camera |-> Str(<<"c">>), action |-> Str(<<"a">>), dialogue |-> Str(<<>>),
     on_screen_text |-> on_screen_text, audio |-> audio, notes_for_model |-> None]

VideoMeta(duration_seconds, platform) ==
    [type |-> "VideoMeta", duration_seconds |-> duration_seconds,
     platform |-> platform]

VideoScript(video_meta, scenes) ==
    [type |-> "VideoScript", video_meta |-> video_meta, scenes |-> scenes]

\* BaseModel.model_dump of each model: nested models become dicts
DumpAudio(a) == [music |-> a.music, sfx |-> a.sfx]

\* mutant: start_sec and end_sec are dumped as whole seconds
DumpScene_WholeSeconds(s) ==
    [id |-> s.id, start_sec |-> (s.start_sec \div 10) * 10,
     end_sec |-> (s.end_sec \div 10) * 10,
     role |-> s.role, visual |-> s.visual, camera |-> s.camera,
     action |-> s.action, dialogue |-> s.dialogue,
     on_screen_text |-> s.on_screen_text, audio |-> DumpAudio(s.audio),
     notes_for_model |-> s.notes_for_model]

DumpScene(s) ==
    [id |-> s.id, start_sec |-> s.start_sec, end_sec |-> s.end_sec,
     role |-> s.role, visual |-> s.visual, camera |-> s.camera,
     action |-> s.action, dialogue |-> s.dialogue,
     on_screen_text |-> s.on_screen_text, audio |-> DumpAudio(s.audio),
     notes_for_model |-> s.notes_for_model]

ModelDump(content) ==
    [video_meta |-> [duration_seconds |-> content.video_meta.duration_seconds,
                     platform |-> content.video_meta.platform],
     scenes |-> [k \in 1..Len(content.scenes) |-> DumpScene(content.scenes[k])]]

\* VideoScript(**data): pydantic validation of a dict, nested dicts included
SceneValid(d) ==
    /\ d.start_sec >= 0
    /\ d.end_sec >= 0
    /\ d.role \in RoleLiteral

HydrateScene(d) ==
    [type |-> "Scene", id |-> d.id, start_sec |-> d.start_sec,
     end_sec |-> d.end_sec, role |-> d.role, visual |-> d.visual,
     camera |-> d.camera, action |-> d.action, dialogue |-> d.dialogue,
     on_screen_text |-> d.on_screen_text,
     audio |-> Audio(d.audio.music, d.audio.sfx),
     notes_for_model |-> d.notes_for_model]

HydrateVideoScript(data) ==
    IF /\ data.video_meta.platform \in PlatformLiteral
       /\ \A k \in 1..Len(data.scenes) : SceneValid(data.scenes[k])
    THEN VideoScript(VideoMeta(data.video_meta.duration_seconds,
                               data.video_meta.platform),
                     [k \in 1..Len(data.scenes) |-> HydrateScene(data.scenes[k])])
    ELSE Raised("ValidationError")

RECURSIVE MinScore(_)
MinScore(s) ==
    IF Len(s) = 1 THEN s[1].quality_score
    ELSE Min2(s[1].quality_score, MinScore(Tail(s)))

RECURSIVE MaxScore(_)
MaxScore(s) ==
    IF Len(s) = 1 THEN s[1].quality_score
    ELSE Max2(s[1].quality_score, MaxScore(Tail(s)))

\* GenerationResult.to_dict; avg is carried as the pair (sum, count)
ToDict(r, timestamp) ==
    [timestamp |-> timestamp,
     generation_uuid |-> r.generation_uuid,
     content_type |-> r.content_type,
     selected_concept |-> [title |-> r.selected_concept.title],
     concept_score |-> r.concept_score,
     generated_content |-> ModelDump(r.content),
     all_concepts |-> [k \in 1..Len(r.scored_concepts) |->
                          [concept |-> [title |-> r.scored_concepts[k].concept.title],
                           score |-> r.scored_concepts[k].quality_score]],
     total_concepts_generated |-> Len(r.concepts),
     total_concepts_scored |-> Len(r.scored_concepts),
     score_distribution |->
         IF r.scored_concepts # <<>>
         THEN [min |-> MinScore(r.scored_concepts),
               max |-> MaxScore(r.scored_concepts),
               avg |-> [sum |-> SumSeq([k \in 1..Len(r.scored_concepts) |->
                                           r.scored_concepts[k].quality_score]),
                        count |-> Len(r.scored_concepts)]]
         ELSE [min |-> 0, max |-> 0, avg |-> [sum |-> 0, count |-> 1]]]

(* Inputs: drafted video scripts *)

OptionalStrs == {None, Str(<<"s">>)}

SceneChoices(id) ==
    {Scene(id, start_sec, role, on_screen_text, Audio(music, None)) :
         start_sec \in {0, 15}, role \in {"hook", "cta"},
         on_screen_text \in OptionalStrs, music \in OptionalStrs}

RECURSIVE SceneLists(_)
SceneLists(n) ==
    IF n = 0 THEN {<<>>}
    ELSE SceneLists(n - 1) \cup
         {Append(s, scene) : s \in {t \in SceneLists(n - 1) : Len(t) = n - 1},
                             scene \in SceneChoices(n)}

VideoScripts ==
    {VideoScript(VideoMeta(30, platform), scenes) :
         platform \in {"tiktok", "linkedin"}, scenes \in SceneLists(MaxScenes)}

\* a caller serialises a returned GenerationResult
ToDictCall ==
    /\ pc = "gen_returned"
    /\ \E timestamp \in {1, 2} : result' = ToDict(gen_result, timestamp)
    /\ pc' = "dict"
    /\ UNCHANGED <<config, params, temperature_grid, request, requests, i, calls>>
    /\ UNCHANGED genVars
    /\ UNCHANGED evalVars
    /\ UNCHANGED llmVars

\* evaluate_creative_scripts: video_script = VideoScript(**result['script'])
Rehydrate ==
    /\ pc = "dict"
    /\ LET hydrated == HydrateVideoScript(result.generated_content)
       IN  IF hydrated.type = "raised"
           THEN /\ pc' = "rehydrate_raised"
                /\ UNCHANGED script
           ELSE /\ script' = hydrated
                /\ pc' = "rehydrated"
    /\ UNCHANGED <<config, params, temperature_grid, request, requests, i,
                   result, calls, outputs, successful_evaluations,
                   temperature_block, persona_block, assessment>>
    /\ UNCHANGED genVars
    /\ UNCHANGED llmVars

\* a generate call has returned a result whose content is a VideoScript
InitDict ==
    /\ config \in {[creativity_level |-> 70, quality_threshold |-> 75]}
    /\ params = map_creativity(config.creativity_level, config.quality_threshold)
    /\ temperature_grid = DefaultTemperatureGrid
    /\ request = [content_type |-> "video_script", evaluate_creativity |-> FALSE]
    /\ requests = 1
    /\ concepts = ConceptList(2)
    /\ scored_concepts = <<ScoredConcept(Concept(1), 30), ScoredConcept(Concept(2), 90)>>
    /\ best_concept = scored_concepts[2]
    /\ \E content \in VideoScripts :
           gen_result = GenerationResult(content, best_concept, "video_script",
                                         concepts, scored_concepts, requests)
    /\ script = None
    /\ i = 3
    /\ outputs = <<>>
    /\ successful_evaluations = <<>>
    /\ temperature_block = None
    /\ persona_block = None
    /\ assessment = None
    /\ result = gen_result
    /\ calls = <<Call("ideation", params.temperature, params.top_p),
                 Call("judge", 30, 90), Call("judge", 30, 90),
                 Call("draft", params.temperature, params.top_p)>>
    /\ InitLLM
    /\ pc = "gen_returned"

NextDict ==
    \/ ToDictCall
    \/ Rehydrate

SpecDict == InitDict /\ [][NextDict]_vars

----------------------------------------------------------------------------
(* CreativityEvaluator.__init__ with a custom temperature grid *)

\* the longest temperature grid a caller passes
MaxGrid == 9

\* a grid of n temperatures 0.1, 0.2, ...
Grid(n) == [k \in 1..n |-> 10 * k]

\* the arguments of CreativityEvaluator(provider, temperature_grid=...): the
\* grid is omitted (None) or a list, the empty list included
EvaluatorArgs ==
    {[provider |-> "provider"]} \cup
    {[provider |-> "provider", temperature_grid |-> Grid(n)] : n \in 0..MaxGrid}

\* CreativityEvaluator.__init__: self.temperature_grid = temperature_grid or
\* [0.1, ..., 0.8]; a list is falsy when it is empty; then the caller calls
\* score_script
NewCreativityEvaluator ==
    /\ pc = "construct_evaluator"
    /\ temperature_grid' =
           IF "temperature_grid" \in DOMAIN request /\ Len(request.temperature_grid) > 0
           THEN request.temperature_grid
           ELSE DefaultTemperatureGrid
    /\ pc' = "score_script"
    /\ UNCHANGED <<config, params, request, requests, i, result, calls>>
    /\ UNCHANGED genVars
    /\ UNCHANGED evalVars
    /\ UNCHANGED llmVars

InitGrid ==
    /\ config \in {[creativity_level |-> 70, quality_threshold |-> 75]}
    /\ params = None
    /\ temperature_grid = None
    /\ request \in EvaluatorArgs
    /\ requests = 0
    /\ concepts = <<>>
    /\ scored_concepts = <<>>
    /\ best_concept = None
    /\ gen_result = None
    /\ script \in Contents
    /\ i = 0
    /\ outputs = <<>>
    /\ successful_evaluations = <<>>
    /\ temperature_block = None
    /\ persona_block = None
    /\ assessment = None
    /\ result = None
    /\ calls = <<>>
    /\ pc = "construct_evaluator"
    /\ InitLLM

NextGrid ==
    \/ NewCreativityEvaluator
    \/ ScoreScript
    \/ TemperatureCall(JudgeOutputs)
    \/ TemperatureSweepReturn

SpecGrid == InitGrid /\ [][NextGrid]_vars

----------------------------------------------------------------------------
(* score_script from the persona sweep on, with judge outputs whose scores
   differ: the evaluator has the default grid or a grid of MaxGrid
   temperatures, the temperature sweep has returned one of a sample of its
   possible blocks, the persona loop runs call by call *)

\* a sample of what the temperature loop can have collected over a grid:
\* every call succeeded with the same output and, for the default grid,
\* every pattern of the first four calls with the last four failing
TemperatureSweepSamples(grid) ==
    {[evals |-> [k \in 1..Len(grid) |-> output],
      outs |-> [k \in 1..Len(grid) |->
                   [temperature |-> grid[k],
                    overall_creativity |-> output.overall_creativity,
                    judge_output |-> output]]] :
        output \in RichJudgeOutputs}
    \cup (IF grid = DefaultTemperatureGrid
          THEN SweepOutcomes("temperature", Quorum)
          ELSE {})

InitAssess ==
    /\ config \in {[creativity_level |-> 70, quality_threshold |-> 75]}
    /\ params = None
    /\ temperature_grid \in {DefaultTemperatureGrid, Grid(MaxGrid)}
    /\ request = None
    /\ requests = 0
    /\ concepts = <<>>
    /\ scored_concepts = <<>>
    /\ best_concept = None
    /\ gen_result = None
    /\ script \in {c \in Contents : c.serialisable}
    /\ pc = "persona_sweep"
    /\ i = 1
    /\ \E o \in TemperatureSweepSamples(temperature_grid) :
           temperature_block = TemperatureBlock(o.evals, o.outs)
    /\ successful_evaluations = <<>>
    /\ outputs = <<>>
    /\ persona_block = None
    /\ assessment = None
    /\ result = None
    /\ calls = [k \in 1..Len(temperature_grid) |->
                   Call("generic_judge", temperature_grid[k], 90)]
    /\ InitLLM

NextAssess ==
    \/ PersonaCall(RichJudgeOutputs)
    \/ PersonaSweepReturn
    \/ Aggregate

SpecAssess == InitAssess /\ [][NextAssess]_vars

----------------------------------------------------------------------------
(* Properties *)

ScoreAt(k) == scored_concepts[k].quality_score
SomeAboveThreshold == \E k \in 1..Len(scored_concepts) : ScoreAt(k) >= params.quality_threshold
ProviderCallFailed(kind) ==
    /\ result = Raised("provider")
    /\ calls # <<>>
    /\ calls[Len(calls)].kind = kind

\* C1: when some scored concept reaches the threshold, _select_best_concept
\* returns a member of the list whose score reaches the threshold and is the
\* greatest among the scores that reach it.
C1_SelectsBestAboveThreshold ==
    (pc = "draft" /\ SomeAboveThreshold) =>
        /\ \E k \in 1..Len(scored_concepts) : scored_concepts[k] = best_concept
        /\ best_concept.quality_score >= params.quality_threshold
        /\ \A k \in 1..Len(scored_concepts) :
               ScoreAt(k) >= params.quality_threshold =>
                   ScoreAt(k) <= best_concept.quality_score

C1_Witness ==
    /\ pc = "draft"
    /\ Len(scored_concepts) = 3
    /\ params.quality_threshold = 75
    /\ ScoreAt(1) = 30 /\ ScoreAt(2) = 75 /\ ScoreAt(3) = 90
    /\ best_concept = scored_concepts[3]

\* C2: when no scored concept reaches the threshold, _select_best_concept
\* returns the concept with the greatest score of the whole list; it raises
\* only when the list is empty.
C2_FallbackToBestOverall ==
    /\ (pc \in {"draft", "gen_raised"} /\ scored_concepts # <<>> /\ ~SomeAboveThreshold) =>
           /\ pc = "draft"
           /\ \E k \in 1..Len(scored_concepts) : scored_concepts[k] = best_concept
           /\ \A k \in 1..Len(scored_concepts) : ScoreAt(k) <= best_concept.quality_score
    /\ pc = "gen_raised" => scored_concepts = <<>>

C2_Witness ==
    /\ pc = "draft"
    /\ Len(scored_concepts) = 3
    /\ params.quality_threshold = 100
    /\ ScoreAt(1) = 30 /\ ScoreAt(2) = 90 /\ ScoreAt(3) = 75
    /\ best_concept = scored_concepts[2]

\* C3: when the ideation call fails or returns no concept, generate raises
\* at once: the ideation call is the only provider call of the request, and
\* neither a scored list nor a GenerationResult exists.
C3_IdeationFailureIsHardStop ==
    (calls # <<>> /\ concepts = <<>>) =>
        /\ pc = "gen_raised"
        /\ result.type = "raised"
        /\ Len(calls) = 1 /\ calls[1].kind = "ideation"
        /\ scored_concepts = <<>>
        /\ best_concept = None
        /\ gen_result = None

C3_Witness ==
    /\ pc = "gen_raised"
    /\ Len(calls) = 1
    /\ result = Raised("Ideation phase returned no concepts.")

\* C4: a sweep makes every one of its 8 calls whatever fails, and the block
\* it returns is absent exactly when fewer than 4 calls succeeded.
C4_SweepQuorum ==
    [][ /\ pc = "temperature_stats" =>
               /\ Len(calls) = 8
               /\ \A k \in 1..8 : calls[k] = Call("generic_judge", temperature_grid[k], 90)
               /\ (temperature_block' = None) <=> (Len(successful_evaluations) < 4)
        /\ pc = "persona_stats" =>
               /\ Len(calls) = 16
               /\ \A k \in 9..16 : calls[k].kind = "persona_judge"
               /\ (persona_block' = None) <=> (Len(successful_evaluations) < 4)
      ]_vars

C4_Witness ==
    /\ pc = "aggregate"
    /\ temperature_block = None
    /\ persona_block # None
    /\ Len(persona_block.by_persona) = 4
    /\ persona_block.by_persona[1].persona = "Performance Marketer"

\* C5: with at least one block present, the aggregate mean is the mean of
\* the present blocks' means and the aggregate std the greatest of their
\* stds, overall and per criterion; (2.0, 0.1) and (2.4, 0.3) give (2.2, 0.3).
PresentBlocks == {b \in {temperature_block, persona_block} : b # None}
SumOfMeans(stat_of(_)) ==
    (IF temperature_block # None THEN stat_of(temperature_block).mean ELSE 0)
  + (IF persona_block # None THEN stat_of(persona_block).mean ELSE 0)
NumPresent ==
    (IF temperature_block # None THEN 1 ELSE 0) + (IF persona_block # None THEN 1 ELSE 0)
IsMeanOfMeansMaxOfStds(agg, stat_of(_)) ==
    /\ agg.mean * NumPresent = SumOfMeans(stat_of)
    /\ \A b \in PresentBlocks : stat_of(b).std <= agg.std
    /\ \E b \in PresentBlocks : stat_of(b).std = agg.std

C5_AggregateMeanOfMeansMaxStd ==
    (pc = "eval_returned" /\ PresentBlocks # {}) =>
        LET Overall(b) == b.overall IN
        /\ IsMeanOfMeansMaxOfStds(assessment.aggregate.overall, Overall)
        /\ DOMAIN assessment.aggregate.criteria = Criteria
        /\ \A c \in Criteria :
               LET Criterion(b) == b.criteria[c]
               IN  IsMeanOfMeansMaxOfStds(assessment.aggregate.criteria[c], Criterion)
        /\ (NumPresent = 1) =>
               \A b \in PresentBlocks :
                   /\ assessment.aggregate.overall = b.overall
                   /\ assessment.aggregate.criteria = b.criteria
        /\ ( /\ NumPresent = 2
             /\ temperature_block.overall = Stats(2 * MeanScale, VarScale \div 100)
             /\ persona_block.overall = Stats((24 * MeanScale) \div 10, (9 * VarScale) \div 100) ) =>
               assessment.aggregate.overall =
                   Stats((22 * MeanScale) \div 10, (9 * VarScale) \div 100)

C5_Witness ==
    /\ pc = "eval_returned"
    /\ temperature_block # None /\ persona_block # None
    /\ temperature_block.overall = Stats(2 * MeanScale, VarScale \div 100)
    /\ persona_block.overall = Stats((24 * MeanScale) \div 10, (9 * VarScale) \div 100)
    /\ assessment.aggregate.overall.mean = 110880

\* C6: when both sweeps miss the quorum, score_script still returns, and the
\* result has both blocks absent and mean 0, std 0 overall and for each of
\* the six criteria.
C6_BothBlocksAbsentGivesZeros ==
    (Len(calls) = 16 /\ pc \notin {"persona_sweep", "persona_stats"}
        /\ temperature_block = None /\ persona_block = None) =>
        /\ pc \in {"aggregate", "eval_returned"}
        /\ pc = "eval_returned" =>
               /\ result = assessment
               /\ assessment.type = "CreativityAssessmentResult"
               /\ assessment.temperature_block = None
               /\ assessment.persona_block = None
               /\ assessment.aggregate.overall = Stats(0, 0)
               /\ DOMAIN assessment.aggregate.criteria = Criteria
               /\ \A c \in Criteria : assessment.aggregate.criteria[c] = Stats(0, 0)

C6_Witness ==
    /\ pc = "eval_returned"
    /\ Len(calls) = 16
    /\ assessment.temperature_block = None
    /\ assessment.persona_block = None
    /\ assessment.aggregate.overall.mean = 0

\* C7: when score_script raises inside CreativeEngine.generate, generate
\* still returns an EngineResult, with evaluation None and with the
\* GenerationResult of the generator as its generation.
C7_EvaluatorFailureIsCaught ==
    [][ pc = "eval_raised" =>
            /\ pc' = "returned"
            /\ result'.type = "EngineResult"
            /\ result'.evaluation = None
            /\ result'.generation = gen_result
            /\ gen_result' = gen_result
      ]_vars

C7_Witness ==
    /\ pc = "returned"
    /\ request.evaluate_creativity
    /\ script # None
    /\ ~script.serialisable
    /\ result.evaluation = None
    /\ result.generation = gen_result

\* C8: CreativeEngine.generate raises or returns a fully populated result;
\* a failed ideation or draft call always ends in a raise, and an evaluation
\* whose calls all fail never does.
FullyPopulated(g) ==
    /\ g.type = "GenerationResult"
    /\ g.content \in Contents
    /\ \E k \in 1..Len(g.concepts) : g.concepts[k] = g.selected_concept
    /\ \E k \in 1..Len(g.scored_concepts) :
           /\ g.scored_concepts[k].concept = g.selected_concept
           /\ g.scored_concepts[k].quality_score = g.concept_score
    /\ g.scored_concepts # <<>>
    /\ g.generation_uuid \in 1..requests

C8_AllOrNothing ==
    /\ [](pc = "returned" => (result.type = "EngineResult" /\ FullyPopulated(result.generation)))
    /\ [](pc = "raised" => (result.type = "raised" /\ gen_result = None /\ script = None))
    /\ []((ProviderCallFailed("ideation") \/ ProviderCallFailed("draft")) =>
              pc \in {"gen_raised", "raised"})
    /\ [][ /\ pc = "gen_raised" => (pc' = "raised" /\ result' = result)
           /\ pc \in {"score_script", "temperature_sweep", "temperature_stats",
                      "persona_sweep", "persona_stats", "aggregate",
                      "eval_returned", "eval_raised"} => pc' # "raised"
         ]_vars

C8_Witness ==
    /\ pc = "returned"
    /\ result.evaluation # None
    /\ result.evaluation.temperature_block = None
    /\ result.evaluation.persona_block = None
    /\ Len(calls) = 1 + Len(gen_result.concepts) + 1 + 16
    /\ FullyPopulated(result.generation)

\* C9: a failing judge call does not abort the concept-judging batch: the
\* remaining concepts are still judged, and generate raises at this stage
\* only when every concept has been tried and none was scored.
C9_JudgeFailureTolerated ==
    (pc = "gen_raised" /\ calls # <<>> /\ calls[Len(calls)].kind = "judge") =>
        /\ Len(calls) = 1 + Len(concepts)
        /\ scored_concepts = <<>>

\* C10: generate with evaluate_creativity=True and a content type other than
\* video_script is not an error: it returns a result whose evaluation is None.
C10_OtherContentTypeSkipsEvaluation ==
    ( /\ pc \in {"returned", "raised"}
      /\ request.evaluate_creativity
      /\ request.content_type # "video_script"
      /\ result # Raised("provider") ) =>
        /\ pc = "returned"
        /\ result.type = "EngineResult"
        /\ result.evaluation = None

----------------------------------------------------------------------------
\* C11: whenever both the native attempt and the fallback attempt of
\* provider.generate fail, the raised error's message contains the primary
\* failure and the fallback failure, for every way the fallback can fail,
\* a fallback response with empty content included
C11_BothFailuresInMessage ==
    api.pc = "raised" =>
        /\ Len(api.outcome.message) = 4
        /\ api.outcome.message[2] = api.e.error
        /\ api.outcome.message[3] = ", fallback also failed: "

----------------------------------------------------------------------------
\* C12: the fallback request is issued only after the native attempt failed
\* and at most once, a successful native attempt returns without it, one
\* generate call issues at most two API requests, and every value returned
\* is an instance built from the requested output_schema
C12_FallbackOnlyAfterNativeFailure ==
    /\ [](api.requests <= 2)
    /\ [](api.pc = "returned" => api.outcome = Instance(request.output_schema))
    /\ [][/\ (api'.requests = 2 /\ api' # api) =>
                 (api.pc = "fallback" /\ api.requests = 1 /\ api.e # None)
          /\ (api.pc = "native" /\ api'.pc = "returned") =>
                 (api'.requests = 1 /\ api'.e = None)]_vars

C12_Witness ==
    /\ api.pc = "returned"
    /\ api.requests = 2
    /\ api.e # None
    /\ api.outcome = Instance(request.output_schema)

----------------------------------------------------------------------------
\* C13: the sampling parameters, branch count and threshold a request uses
\* are determined by the configuration at the time of that request, and by
\* nothing computed or cached during an earlier request
C13_ParamsFollowConfiguration ==
    pc \in {"judge", "select", "draft", "gen_returned"} =>
        params = map_creativity(config.creativity_level, config.quality_threshold)

----------------------------------------------------------------------------
\* mean is the arithmetic mean of scores (mean carried times MeanScale,
\* scores in tenths)
IsMeanOf(mean, scores) ==
    mean * Len(scores) = SumSeq(scores) * (MeanScale \div 10)

\* std is the sample standard deviation of scores: its square is the sum of
\* the squared deviations from the mean over n - 1 (both sides times n * n)
IsSampleStdOf(std, scores) ==
    LET n == Len(scores)
        total == SumSeq(scores)
        dev == [k \in 1..n |-> (n * scores[k] - total) * (n * scores[k] - total)]
    IN  std * n * n * (n - 1) = SumSeq(dev) * (VarScale \div 100)

IsStatisticsOf(block, evals) ==
    LET n == Len(evals)
        overall_scores == [k \in 1..n |-> evals[k].overall_creativity]
        Scores(c) == [k \in 1..n |-> evals[k].criteria[c]]
    IN  /\ IsMeanOf(block.overall.mean, overall_scores)
        /\ IsSampleStdOf(block.overall.std, overall_scores)
        /\ \A c \in Criteria :
               /\ IsMeanOf(block.criteria[c].mean, Scores(c))
               /\ IsSampleStdOf(block.criteria[c].std, Scores(c))

\* C14: a present block's overall mean and each criterion mean are the
\* arithmetic means over exactly the successful calls of the sweep, each std
\* is the sample standard deviation over the same calls, and failed calls
\* contribute to none of them
C14_BlockStatisticsOverSuccessfulCalls ==
    [][/\ (pc = "temperature_stats" /\ temperature_block' # None) =>
              /\ IsStatisticsOf(temperature_block', successful_evaluations)
              /\ temperature_block'.by_temperature = outputs
              /\ Len(outputs) = Len(successful_evaluations)
       /\ (pc = "persona_stats" /\ persona_block' # None) =>
              /\ IsStatisticsOf(persona_block', successful_evaluations)
              /\ persona_block'.by_persona = outputs
              /\ Len(outputs) = Len(successful_evaluations)]_vars

C14_Witness ==
    /\ pc = "aggregate"
    /\ persona_block # None
    /\ Len(persona_block.by_persona) = 5
    /\ Len(calls) = 8
    /\ persona_block.overall.std > 0
    /\ persona_block.criteria["hook_originality"].mean # persona_block.overall.mean

----------------------------------------------------------------------------
\* map_creativity has returned for a creativity_level inside [0, 1]
MappedInRange ==
    /\ pc = "mapped"
    /\ 0 <= request.creativity_level
    /\ request.creativity_level <= 100

\* C15: for every creativity_level in [0, 1] the mapped temperature lies in
\* [0.4, 1.2], top_p in [0.6, 1.0] and num_branches in [2, 8], and
\* num_branches never decreases when the level increases
C15_MappedRanges ==
    MappedInRange =>
        /\ 40 <= params.temperature /\ params.temperature <= 120
        /\ 60 <= params.top_p /\ params.top_p <= 100
        /\ 2 <= params.num_branches /\ params.num_branches <= 8
        /\ \A lower \in 0..request.creativity_level :
               map_creativity(lower, request.quality_threshold).num_branches
                   <= params.num_branches

C15_Witness ==
    /\ MappedInRange
    /\ request.creativity_level = 100
    /\ params.num_branches = 8
    /\ params.temperature = 120

----------------------------------------------------------------------------
\* C16: for a creativity_level in [0, 1], temperature is 0.4 + 0.8 * level
\* and top_p is 0.6 + 0.4 * level, each rounded to two decimals, num_branches
\* is max(2, floor(2 + 6 * level)), and quality_threshold is passed through;
\* level 0.7 gives 6 branches, temperature 0.96 and top_p 0.88
C16_MappingFormulas ==
    MappedInRange =>
        LET level == request.creativity_level IN
        \* nearest hundredth of a value given in thousandths
        /\ 10 * params.temperature - 5 <= 400 + 8 * level
        /\ 400 + 8 * level <= 10 * params.temperature + 5
        /\ 10 * params.top_p - 5 <= 600 + 4 * level
        /\ 600 + 4 * level <= 10 * params.top_p + 5
        \* floor(2 + 6 * level), which is at least 2
        /\ 100 * params.num_branches <= 200 + 6 * level
        /\ 200 + 6 * level < 100 * (params.num_branches + 1)
        /\ params.num_branches >= 2
        /\ params.quality_threshold = request.quality_threshold
        /\ level = 70 => /\ params.num_branches = 6
                         /\ params.temperature = 96
                         /\ params.top_p = 88

C16_Witness ==
    /\ MappedInRange
    /\ request.creativity_level = 70
    /\ request.quality_threshold = 75
    /\ params = [type |-> "EngineParameters", temperature |-> 96, top_p |-> 88,
                 num_branches |-> 6, quality_threshold |-> 75]

----------------------------------------------------------------------------
\* C17: map_creativity never raises for an out-of-range level: the level is
\* clamped into [0, 1], so a level below 0 maps as 0 and a level above 1 maps
\* as 1, and the EngineParameters validation never rejects the mapped values
C17_OutOfRangeLevelIsClamped ==
    /\ pc # "map_raised"
    /\ pc = "mapped" =>
           /\ ~EngineParametersRaises(params)
           /\ request.creativity_level < 0 =>
                  /\ params = map_creativity(0, request.quality_threshold)
                  /\ params.temperature = 40
                  /\ params.top_p = 60
                  /\ params.num_branches = 2
           /\ request.creativity_level > 100 =>
                  /\ params = map_creativity(100, request.quality_threshold)
                  /\ params.temperature = 120
                  /\ params.top_p = 100
                  /\ params.num_branches = 8

C17_Witness ==
    /\ pc = "mapped"
    /\ request.creativity_level > 100
    /\ params.num_branches = 8

----------------------------------------------------------------------------
\* C18: constructing a CreativityConfig fails exactly when creativity_level
\* or quality_threshold lies outside [0, 1] (1.5 and -0.1 fail), and succeeds
\* when both lie inside, 0.0 and 1.0 included
C18_ConfigValidation ==
    LET inside(x) == 0 <= x /\ x <= 100 IN
    /\ pc = "config_raised" =>
           /\ ~(inside(request.creativity_level) /\ inside(request.quality_threshold))
           /\ config = None
    /\ pc = "configured" =>
           /\ inside(request.creativity_level)
           /\ inside(request.quality_threshold)
           /\ config = [creativity_level |-> request.creativity_level,
                        quality_threshold |-> request.quality_threshold]
    /\ (pc \in {"config_raised", "configured"}
           /\ (request.creativity_level \in {150, -10}
               \/ request.quality_threshold \in {150, -10})) =>
           pc = "config_raised"

C18_Witness ==
    /\ pc = "configured"
    /\ config.creativity_level = 0
    /\ config.quality_threshold = 100

----------------------------------------------------------------------------
\* the prefixes the factory documents for each provider family
PrefixesOf(family) ==
    CASE family = "OpenAIProvider" -> {<<"g", "p", "t", "-">>, <<"o", "1", "-">>}
      [] family = "AnthropicProvider" -> {<<"c", "l", "a", "u", "d", "e", "-">>}
      [] family = "GeminiProvider" -> {<<"g", "e", "m", "i", "n", "i", "-">>}

\* name begins with prefix, letters compared without regard to case
BeginsWithIgnoringCase(name, prefix) ==
    /\ Len(name) >= Len(prefix)
    /\ \A k \in 1..Len(prefix) : LowerChar(name[k]) = prefix[k]

FamiliesOf(model) ==
    {family \in ProviderFamily :
         \E prefix \in PrefixesOf(family) : BeginsWithIgnoringCase(model.value, prefix)}

\* the engine constructor has just run with a model name and no provider
ConstructedFromModel ==
    /\ pc \in {"constructed", "construct_raised"}
    /\ api = ApiIdle
    /\ Truthy(request.model)
    /\ request.provider = None

\* C19: create_provider_from_model selects the family by case-insensitive
\* prefix ('gpt-' or 'o1-' OpenAI, 'claude-' Anthropic, 'gemini-' Gemini),
\* raises the unknown-model error for every other name, and no name maps to
\* two families
C19_FamilyByPrefix ==
    /\ \A model \in ModelNames : Cardinality(FamiliesOf(model)) <= 1
    /\ ConstructedFromModel =>
           /\ pc = "constructed" =>
                  /\ FamiliesOf(request.model) = {provider.family}
                  /\ provider.model_name = request.model
           /\ FamiliesOf(request.model) = {} <=> result = Raised("Unknown model")

C19_Witness ==
    /\ ConstructedFromModel
    /\ pc = "constructed"
    /\ request.model = Str(<<"C", "L", "A", "U", "D", "E", "-", "3">>)
    /\ provider.family = "AnthropicProvider"

----------------------------------------------------------------------------
\* the constructor arguments and the environment hold a configuration error:
\* model and provider both given or both missing, a model name that matches
\* no prefix, or no API key for the selected provider
ConfigurationError ==
    \/ Truthy(request.model) /\ request.provider # None
    \/ ~Truthy(request.model) /\ request.provider = None
    \/ /\ Truthy(request.model)
       /\ \/ FamiliesOf(request.model) = {}
          \/ \E family \in FamiliesOf(request.model) :
                 /\ ~Truthy(request.api_key)
                 /\ ~Truthy(environ.vars[EnvVar(family)])

\* C20: configuration errors surface at construction and never during
\* generate: constructing a CreativeEngine raises when both or neither of
\* model and provider are given, when the model name matches no prefix, or
\* when the selected provider has no API key, and no provider request has
\* been made in any of these cases
C20_ConfigurationErrorsAtConstruction ==
    /\ [](pc = "construct_raised" =>
              /\ result.type = "raised"
              /\ provider = None
              /\ api = ApiIdle
              /\ calls = <<>>)
    /\ [](api # ApiIdle =>
              /\ pc = "constructed"
              /\ provider # None
              /\ Truthy(provider.api_key))
    /\ [][(pc = "construct" /\ ConfigurationError) => pc' = "construct_raised"]_vars

C20_Witness ==
    /\ pc = "construct_raised"
    /\ result = Raised("API key not found")
    /\ request.model = Str(<<"g", "e", "m", "i", "n", "i", "-", "2">>)
    /\ environ.vars["OPENAI_API_KEY"] # None
    /\ api = ApiIdle

----------------------------------------------------------------------------
----------------------------------------------------------------------------
\* C22: a successful generate that ideated N concepts issues exactly N + 2
\* provider calls: one ideation call, one judge call per concept in the
\* order of the concepts, one draft call; no stage is retried and selection
\* happens only after every concept has been judged
C22_CallSequence ==
    /\ [](pc = "gen_returned" =>
              LET n == Len(gen_result.concepts) IN
              /\ Len(calls) = n + 2
              /\ calls[1].kind = "ideation"
              /\ \A k \in 2..(n + 1) : calls[k].kind = "judge"
              /\ calls[n + 2].kind = "draft")
    /\ [](pc \in {"select", "draft"} =>
              /\ Len(scored_concepts) = Len(concepts)
              /\ Len(calls) = Len(concepts) + 1)
    /\ [][(pc = "judge" /\ pc' \in {"judge", "select"}) =>
              /\ Len(calls') = Len(calls) + 1
              /\ calls'[Len(calls')].kind = "judge"
              /\ Len(scored_concepts') = Len(scored_concepts) + 1
              /\ scored_concepts'[Len(scored_concepts')].concept
                     = concepts[Len(scored_concepts')]]_vars

C22_Witness ==
    /\ pc = "gen_returned"
    /\ Len(gen_result.concepts) = 3
    /\ Len(calls) = 5
    /\ calls[5].kind = "draft"

----------------------------------------------------------------------------
\* C23: within one request every judge call uses temperature 0.3 and top_p
\* 0.9 whatever the creativity level, the ideation call and the draft call
\* use the temperature and top_p map_creativity derives from the level, and
\* the draft call never uses the judge temperature
C23_CallTemperatures ==
    LET mapped == map_creativity(config.creativity_level, config.quality_threshold)
    IN  \A k \in 1..Len(calls) :
            /\ calls[k].kind = "judge" =>
                   /\ calls[k].temperature = 30
                   /\ calls[k].top_p = 90
            /\ calls[k].kind \in {"ideation", "draft"} =>
                   /\ calls[k].temperature = mapped.temperature
                   /\ calls[k].top_p = mapped.top_p
            /\ calls[k].kind = "draft" => calls[k].temperature # 30

C23_Witness ==
    /\ pc = "gen_returned"
    /\ config.creativity_level = 0
    /\ Len(calls) = 4
    /\ calls[1].temperature = 40
    /\ calls[2].temperature = 30
    /\ calls[4].temperature = 40
    /\ calls[4].top_p = 60

----------------------------------------------------------------------------
\* C25: in every GenerationResult scored_concepts has the length and order
\* of concepts with scored_concepts[i].concept = concepts[i], selected_concept
\* is the concept of one element of scored_concepts, and concept_score is
\* that element's quality_score
C25_ScoredConceptsPairing ==
    pc = "gen_returned" =>
        /\ Len(gen_result.scored_concepts) = Len(gen_result.concepts)
        /\ \A k \in 1..Len(gen_result.concepts) :
               gen_result.scored_concepts[k].concept = gen_result.concepts[k]
        /\ \E k \in 1..Len(gen_result.scored_concepts) :
               /\ gen_result.selected_concept = gen_result.scored_concepts[k].concept
               /\ gen_result.concept_score = gen_result.scored_concepts[k].quality_score

C25_Witness ==
    /\ pc = "gen_returned"
    /\ Len(gen_result.concepts) = 3
    /\ gen_result.selected_concept = gen_result.concepts[2]
    /\ gen_result.concept_score = 75
    /\ gen_result.scored_concepts[1].quality_score = 30

----------------------------------------------------------------------------
\* k is the first position of scored list s that holds the greatest score
FirstMaximum(s, k) ==
    /\ \A j \in 1..Len(s) : s[j].quality_score <= s[k].quality_score
    /\ \A j \in 1..(k - 1) : s[j].quality_score < s[k].quality_score

\* C27: the quality threshold never changes which concept is selected: for
\* every non-empty scored list and every threshold _select_best_concept
\* returns the first element whose score is the maximum of the whole list,
\* so concept_score in a GenerationResult is the maximum of all scores
C27_ThresholdNeverChangesSelection ==
    /\ pc \in {"draft", "gen_returned"} =>
           /\ \E k \in 1..Len(scored_concepts) :
                  /\ FirstMaximum(scored_concepts, k)
                  /\ best_concept = scored_concepts[k]
           /\ \A threshold \in 0..100 :
                  SelectBestConcept(scored_concepts, threshold) = best_concept
    /\ pc = "gen_returned" =>
           /\ gen_result.concept_score = MaxScore(gen_result.scored_concepts)
           /\ gen_result.selected_concept = best_concept.concept

C27_Witness ==
    /\ pc = "gen_returned"
    /\ config.quality_threshold = 75
    /\ Len(scored_concepts) = 3
    /\ scored_concepts[1].quality_score = 75
    /\ scored_concepts[2].quality_score = 90
    /\ scored_concepts[3].quality_score = 90
    /\ gen_result.selected_concept = concepts[2]

----------------------------------------------------------------------------
\* position of a persona name in ALL_PERSONAS
PersonaIndex(name) == CHOOSE k \in 1..Len(ALL_PERSONAS) : ALL_PERSONAS[k] = name

\* C24: score_script with the default configuration issues exactly 16
\* provider calls in a fixed order whatever the outcome of each call: the 8
\* temperature-sweep calls at 0.1 to 0.8 in grid order with top_p 0.9, then
\* the 8 persona calls in persona-list order at 0.3 with top_p 0.9; the
\* persona sweep runs even when the temperature block failed its quorum, and
\* aggregation happens only after both sweeps
C24_SixteenCallsInOrder ==
    /\ [](pc \in {"aggregate", "eval_returned"} =>
              /\ Len(calls) = 16
              /\ \A k \in 1..8 :
                     /\ calls[k] = Call("generic_judge", 10 * k, 90)
                     /\ calls[8 + k] = Call("persona_judge", 30, 90))
    /\ [](pc = "persona_sweep" =>
              /\ Len(calls) = 8 + (i - 1)
              /\ \A k \in 1..Len(outputs) : \A j \in 1..(k - 1) :
                     PersonaIndex(outputs[j].persona) < PersonaIndex(outputs[k].persona))
    /\ [](pc = "temperature_sweep" => Len(calls) = i - 1)
    /\ [][/\ pc = "temperature_stats" => pc' = "persona_sweep"
          /\ pc' = "aggregate" => pc = "persona_stats"
          /\ (pc = "persona_sweep" /\ pc' \in {"persona_sweep", "persona_stats"}) =>
                 calls' = Append(calls, Call("persona_judge", 30, 90))]_vars

C24_Witness ==
    /\ pc = "eval_returned"
    /\ Len(calls) = 16
    /\ temperature_block = None
    /\ persona_block # None
    /\ Len(persona_block.by_persona) = 6

\* the positions at which CreativeEngine.generate is inside score_script
EvaluatorPositions ==
    {"score_script", "temperature_sweep", "temperature_stats", "persona_sweep",
     "persona_stats", "aggregate", "eval_returned", "eval_raised"}

\* the calls of the current request that the evaluator issued
EvaluatorCalls ==
    {k \in 1..Len(calls) : calls[k].kind \in {"generic_judge", "persona_judge"}}

\* C26: the evaluator is invoked only after the generator returned, and only
\* when evaluate_creativity is true and the content type is video_script;
\* in every other case (flag false, generation raised) the request issues no
\* evaluator call; every returned EngineResult carries the generation and
\* the uuid of that generation
C26_EvaluatorOnlyWhenRequested ==
    /\ (pc \in EvaluatorPositions \/ EvaluatorCalls # {}) =>
           /\ gen_result # None
           /\ request.evaluate_creativity
           /\ request.content_type = "video_script"
    /\ pc = "raised" => EvaluatorCalls = {} /\ gen_result = None
    /\ pc = "returned" =>
           /\ result.generation = gen_result
           /\ result.uuid = result.generation.generation_uuid
           /\ ~(request.evaluate_creativity /\ request.content_type = "video_script") =>
                  EvaluatorCalls = {} /\ result.evaluation = None

C26_Witness ==
    /\ pc = "returned"
    /\ requests = 2
    /\ ~request.evaluate_creativity
    /\ request.content_type = "video_script"
    /\ EvaluatorCalls = {}
    /\ result.evaluation = None
    /\ result.uuid = gen_result.generation_uuid

\* C28: score_script never raises because of a provider failure: whatever
\* the success/failure pattern of its 16 judge calls, all failing included,
\* it returns a CreativityAssessmentResult; it leaves by an exception only
\* before its first judge call, so once a judge call was made the engine's
\* catch is not triggered and the EngineResult carries the assessment
C28_ProviderFailuresNeverRaise ==
    /\ [](pc = "eval_raised" => EvaluatorCalls = {})
    /\ [](pc = "eval_returned" =>
              /\ assessment.type = "CreativityAssessmentResult"
              /\ Cardinality(EvaluatorCalls) = 16)
    /\ []((pc = "returned" /\ EvaluatorCalls # {}) =>
              /\ result.evaluation # None
              /\ result.evaluation.type = "CreativityAssessmentResult")
    /\ [][/\ pc \in {"temperature_sweep", "temperature_stats", "persona_sweep",
                     "persona_stats", "aggregate"} => pc' # "eval_raised"]_vars

C28_Witness ==
    /\ pc = "returned"
    /\ Cardinality(EvaluatorCalls) = 16
    /\ temperature_block = None
    /\ persona_block = None
    /\ result.evaluation # None
    /\ result.evaluation.aggregate.overall.mean = 0

\* the evaluator was built with an explicit temperature_grid argument
GridGiven == "temperature_grid" \in DOMAIN request

\* C29 as claimed: for an evaluator built with a temperature_grid of n
\* temperatures the sweep makes n calls, and with n < 4 the block is absent
C29_SweepSizeIsGridArgument ==
    (GridGiven /\ pc = "persona_sweep") =>
        /\ Len(calls) = Len(request.temperature_grid)
        /\ Len(request.temperature_grid) < 4 => temperature_block = None

\* C29 amended: the quorum is the absolute constant 4 and does not scale with
\* the sweep size: for an evaluator built with a non-empty temperature_grid
\* of n >= 1 temperatures the sweep makes n calls and the temperature block
\* is present iff at least 4 of them succeed, so with 1 <= n < 4 the block is
\* absent even when every call succeeds, and with n > 8 four successes
\* suffice; an empty or omitted grid is replaced by the default grid of 8
C29_AbsoluteQuorum ==
    /\ []((GridGiven /\ Len(request.temperature_grid) >= 1 /\ pc = "persona_sweep") =>
              /\ temperature_grid = request.temperature_grid
              /\ Len(calls) = Len(request.temperature_grid)
              /\ Len(request.temperature_grid) < 4 => temperature_block = None)
    /\ []((pc = "persona_sweep" /\ ~(GridGiven /\ Len(request.temperature_grid) >= 1)) =>
              /\ temperature_grid = DefaultTemperatureGrid
              /\ Len(calls) = 8)
    /\ []((pc = "persona_sweep" /\ temperature_block # None) =>
              Len(temperature_block.by_temperature) >= 4)
    /\ [][/\ pc = "temperature_stats" =>
                 /\ Len(calls) = Len(temperature_grid)
                 /\ (temperature_block' # None) <=> (Len(successful_evaluations) >= 4)]_vars

\* nine temperatures, exactly four successes: the block is present
C29_Witness ==
    /\ pc = "persona_sweep"
    /\ GridGiven
    /\ Len(request.temperature_grid) > 8
    /\ Len(calls) = Len(request.temperature_grid)
    /\ temperature_block # None
    /\ Len(temperature_block.by_temperature) = 4

\* three temperatures, every call succeeded: the block is absent
C29_WitnessSmallGrid ==
    /\ pc = "temperature_stats"
    /\ GridGiven
    /\ Len(request.temperature_grid) = 3
    /\ Len(successful_evaluations) = 3
    /\ TemperatureBlock(successful_evaluations, outputs) = None

\* a mean (carried times MeanScale) lies in [1, 3]
MeanInScoreRange(mean) == MeanScale <= mean /\ mean <= 3 * MeanScale

\* the entries of a block follow the sweep order
InSweepOrder(block) ==
    IF block.type = "TemperatureBlock"
    THEN \A k \in 1..Len(block.by_temperature) : \A j \in 1..(k - 1) :
             block.by_temperature[j].temperature < block.by_temperature[k].temperature
    ELSE \A k \in 1..Len(block.by_persona) : \A j \in 1..(k - 1) :
             PersonaIndex(block.by_persona[j].persona)
                 < PersonaIndex(block.by_persona[k].persona)

\* the number of raw per-run entries of a block
RawEntries(block) ==
    IF block.type = "TemperatureBlock" THEN Len(block.by_temperature)
                                       ELSE Len(block.by_persona)

\* the number of calls of the sweep that produced a block
SweepSize(block) ==
    IF block.type = "TemperatureBlock" THEN Len(temperature_grid)
                                       ELSE Len(ALL_PERSONAS)

\* C30 as claimed: each present block of a returned CreativityAssessmentResult
\* holds between 4 and 8 raw per-run entries
C30_FourToEightEntries ==
    pc = "eval_returned" =>
        \A block \in {assessment.temperature_block, assessment.persona_block} \ {None} :
            RawEntries(block) \in 4..8

\* C30 amended: in every CreativityAssessmentResult that score_script returns
\* the aggregate has exactly the six criterion keys; if a block is present,
\* the aggregate overall mean and every aggregate criterion mean lie in
\* [1, 3], and each present block holds at least 4 raw entries and at most
\* as many as its sweep made calls (8 personas; 8 temperatures by default, n
\* for a custom grid of n), one per successful call in sweep order; the
\* aggregate overall mean is 0 iff both blocks are absent
C30_AssessmentShape ==
    /\ [](pc = "eval_returned" =>
              LET tb == assessment.temperature_block
                  pb == assessment.persona_block
                  agg == assessment.aggregate
              IN  /\ DOMAIN agg.criteria = Criteria
                  /\ Cardinality(DOMAIN agg.criteria) = 6
                  /\ (tb # None \/ pb # None) =>
                         /\ MeanInScoreRange(agg.overall.mean)
                         /\ \A c \in Criteria : MeanInScoreRange(agg.criteria[c].mean)
                  /\ \A block \in {tb, pb} \ {None} :
                         /\ RawEntries(block) \in 4..SweepSize(block)
                         /\ InSweepOrder(block)
                  /\ (agg.overall.mean = 0) <=> (tb = None /\ pb = None))
    /\ [][/\ pc = "persona_sweep" =>
                 /\ Len(outputs) = Len(successful_evaluations)
                 /\ \/ UNCHANGED <<outputs, successful_evaluations>>
                    \/ /\ Len(successful_evaluations') = Len(successful_evaluations) + 1
                       /\ Len(outputs') = Len(outputs) + 1
                       /\ outputs'[Len(outputs')].persona = ALL_PERSONAS[i]
                       /\ outputs'[Len(outputs')].judge_output
                              = successful_evaluations'[Len(outputs')]
          /\ pc = "persona_stats" =>
                 (persona_block' # None => persona_block'.by_persona = outputs)]_vars

C30_Witness ==
    /\ pc = "eval_returned"
    /\ assessment.temperature_block # None
    /\ assessment.persona_block # None
    /\ Len(assessment.temperature_block.by_temperature) = 8
    /\ Len(assessment.persona_block.by_persona) = 5
    /\ assessment.aggregate.criteria["hook_originality"].mean = 3 * MeanScale
    /\ assessment.aggregate.overall.mean = MeanScale

\* both blocks absent: the aggregate is all zero
C30_WitnessBothAbsent ==
    /\ pc = "eval_returned"
    /\ assessment.temperature_block = None
    /\ assessment.persona_block = None
    /\ assessment.aggregate.overall.mean = 0

====
